---- MODULE Spec2Model ----
(***************************************************************************)
(* A model of the retrieval-augmented question-answering service:         *)
(*   - TextSplitter           (src/src/utils/textSplitter.js)              *)
(*   - ConversationContextService, SimpleVectorStore, EmbeddingService     *)
(*                            (src/src/app.js)                             *)
(*   - ChatService            (src/src/services/chat.js)                   *)
(* JavaScript strings are strings and arrays are sequences; a JavaScript  *)
(* index i is position i + 1 of the string or sequence.                    *)
(***************************************************************************)
EXTENDS Integers, Sequences, FiniteSets, TLC

VARIABLES
    \* TextSplitter: the constructor's fields and the locals of splitText,
    \* the offsets [start, end) of the slices the loop took (a history
    \* variable) and the argument of splitDocuments
    text, chunkSize, chunkOverlap, start, chunks, spc, splitResult, slices,
    splitInput,
    \* ConversationContextService: its fields, the uuid source, the clock,
    \* the call that the last step completed (on any service, NoCall when the
    \* last step completed none) with what it returned, and for each session
    \* how many messages it was sent since it was created or emptied (a
    \* history variable, counted up to 3)
    conversations, maxContextLength, maxTokens, nextUuid, now, lastCall, ret,
    received,
    \* SimpleVectorStore: its four parallel arrays, the snapshot file
    \* vector_storage.json, and the calls on the store that are in flight
    documents, embeddings, metadatas, ids, storageFile, scalls,
    \* ChatService: the answerQuestion calls that are in flight
    qcalls,
    \* VectorStore: the ChromaDB collection, the fallback flag, the position
    \* of initialize(), the connection attempts made and the calls in flight
    \* on the collection
    collection, useSimpleStore, vpc, connects, vcalls,
    \* EmbeddingService: the generateEmbeddings call that is in flight
    ecall

splitVars ==
    <<text, chunkSize, chunkOverlap, start, chunks, spc, splitResult, slices,
      splitInput>>

ctxVars ==
    <<conversations, maxContextLength, maxTokens, nextUuid, now, lastCall, ret,
      received>>

\* The service's own state, without the record of the last call
ctxState == <<conversations, maxContextLength, maxTokens, nextUuid, now, received>>

storeVars == <<documents, embeddings, metadatas, ids, storageFile, scalls>>

chatVars == <<qcalls>>

backendVars == <<collection, useSimpleStore, vpc, connects, vcalls>>

embedVars == <<ecall>>

vars == <<splitVars, ctxVars, storeVars, chatVars, backendVars, embedVars>>

(***************************************************************************)
(* Bounds of the model                                                     *)
(***************************************************************************)
MaxTextLen == 4
MaxChunkSize == 3
MaxIter == 6
MaxCtx == 3
MaxTokens == 4
MaxUuid == 3
MaxStore == 2
MaxTurnUuid == 4
MaxClock == 1
MaxTexts == 6
MaxMessages == 6

(***************************************************************************)
(* JavaScript primitives                                                   *)
(***************************************************************************)
NoCall == [op |-> "none"]

Null == [null |-> TRUE]

Min(a, b) == IF a < b THEN a ELSE b

Max(a, b) == IF a > b THEN a ELSE b

SetMax(S) == CHOOSE x \in S : \A y \in S : y <= x

\* Array.prototype.slice / String.prototype.slice(from, to): a negative
\* argument counts from the end, both are clamped to [0, length].
SliceIndex(len, i) == IF i < 0 THEN Max(len + i, 0) ELSE Min(i, len)

slice(s, from, to) ==
    LET f == SliceIndex(Len(s), from)
        t == SliceIndex(Len(s), to)
    IN  SubSeq(s, f + 1, t)

\* slice(from) with the end omitted
sliceFrom(s, from) == slice(s, from, Len(s))

\* String.prototype.lastIndexOf(pat, fromIndex): the greatest index
\* i <= clamp(fromIndex, 0, length - |pat|) at which pat occurs, or -1.
lastIndexOf(s, pat, fromIndex) ==
    LET n == Len(s)
        m == Len(pat)
        pos == Min(Max(fromIndex, 0), n - m)
        hits == {i \in 0..pos : SubSeq(s, i + 1, i + m) = pat}
    IN  IF hits = {} THEN -1 ELSE SetMax(hits)

WhiteSpace == {" ", "\n"}

\* String.prototype.trim
trim(s) ==
    LET keep == {i \in 1..Len(s) : SubSeq(s, i, i) \notin WhiteSpace}
    IN  IF keep = {} THEN ""
        ELSE SubSeq(s, CHOOSE i \in keep : \A j \in keep : i <= j, SetMax(keep))

(***************************************************************************)
(* TextSplitter                                                            *)
(***************************************************************************)
Alphabet == {"a", ".", "\n", " "}

RECURSIVE Strings(_, _)
Strings(chars, n) ==
    IF n = 0 THEN {""}
    ELSE LET shorter == Strings(chars, n - 1)
         IN  shorter \cup {s \o c : s \in shorter, c \in chars}

Texts == Strings(Alphabet, MaxTextLen)

\* The end offset of the slice that starts at st (lines 12-23)
splitEnd(txt, st, size) ==
    LET end == st + size
        sentenceEnd == lastIndexOf(txt, ".", end)
        paragraphEnd == lastIndexOf(txt, "\n\n", end)
        breakPoint == Max(sentenceEnd, paragraphEnd)
    IN  IF end < Len(txt) /\ breakPoint > st THEN breakPoint + 1 ELSE end

\* The splitter when no splitText call is modelled
SplitIdle ==
    /\ text = ""
    /\ chunkSize = 1
    /\ chunkOverlap = 0
    /\ start = 0
    /\ chunks = <<>>
    /\ spc = "done"
    /\ splitResult = <<>>
    /\ slices = <<>>
    /\ splitInput = <<>>

\* new TextSplitter(chunkSize, chunkOverlap) and the entry of splitText(text)
SplitInit ==
    /\ text \in Texts
    /\ chunkSize \in 1..MaxChunkSize
    /\ chunkOverlap \in 0..(chunkSize - 1)
    /\ start = 0
    /\ chunks = <<>>
    /\ spc = "loop"
    /\ splitResult = <<>>
    /\ slices = <<>>
    /\ splitInput = <<>>

\* One iteration of the loop that leaves one position out after each slice
SplitLoopSkips ==
    /\ spc = "loop"
    /\ start < Len(text)
    /\ Len(chunks) < MaxIter
    /\ LET end == splitEnd(text, start, chunkSize)
       IN  /\ chunks' = Append(chunks, trim(slice(text, start, end)))
           /\ slices' = Append(slices, <<start, end>>)
           /\ start' = end + 1 - chunkOverlap
    /\ UNCHANGED <<text, chunkSize, chunkOverlap, spc, splitResult, splitInput>>
    /\ UNCHANGED <<ctxVars, storeVars, chatVars, backendVars, embedVars>>

\* One iteration of the while loop of splitText
SplitLoop ==
    /\ spc = "loop"
    /\ start < Len(text)
    /\ Len(chunks) < MaxIter
    /\ LET end == splitEnd(text, start, chunkSize)
       IN  /\ chunks' = Append(chunks, trim(slice(text, start, end)))
           /\ slices' = Append(slices, <<start, end>>)
           /\ start' = end - chunkOverlap
    /\ UNCHANGED <<text, chunkSize, chunkOverlap, spc, splitResult, splitInput>>
    /\ UNCHANGED <<ctxVars, storeVars, chatVars, backendVars, embedVars>>

\* The loop exit and the return of the non-empty chunks
SplitReturn ==
    /\ spc = "loop"
    /\ start >= Len(text)
    /\ splitResult' = SelectSeq(chunks, LAMBDA c : Len(c) > 0)
    /\ spc' = "done"
    /\ UNCHANGED <<text, chunkSize, chunkOverlap, start, chunks, slices, splitInput>>
    /\ UNCHANGED <<ctxVars, storeVars, chatVars, backendVars, embedVars>>

\* splitText as a function of its input. The loop is followed for at most
\* fuel iterations; a call that returns takes its slices at distinct offsets
\* of the text, so one that needs more never returns.
RECURSIVE splitLoop(_, _, _, _, _, _)
splitLoop(txt, size, overlap, st, acc, fuel) ==
    IF st >= Len(txt)
    THEN [returns |-> TRUE, chunks |-> SelectSeq(acc, LAMBDA c : Len(c) > 0)]
    ELSE IF fuel = 0
    THEN [returns |-> FALSE, chunks |-> <<>>]
    ELSE LET end == splitEnd(txt, st, size)
         IN  splitLoop(txt, size, overlap, end - overlap,
                       Append(acc, trim(slice(txt, st, end))), fuel - 1)

splitText(txt, size, overlap) ==
    splitLoop(txt, size, overlap, 0, <<>>, 2 * Len(txt) + size + 2)

\* splitDocuments whose chunkIndex runs on from one document to the next
RECURSIVE splitDocumentsRunningIndex(_, _, _, _, _)
splitDocumentsRunningIndex(docs, size, overlap, docIndex, acc) ==
    IF docIndex >= Len(docs) THEN acc
    ELSE LET doc == docs[docIndex + 1]
             cs == splitText(doc.content, size, overlap).chunks
             tagged == [k \in 1..Len(cs) |->
                          [content |-> cs[k], source |-> doc.source,
                           chunkIndex |-> Len(acc) + k - 1,
                           originalDocIndex |-> docIndex]]
         IN  splitDocumentsRunningIndex(docs, size, overlap, docIndex + 1,
                                        acc \o tagged)

\* splitDocuments(documents): documents.forEach from docIndex on, pushing on
\* to acc; {...doc, content, chunkIndex, originalDocIndex}
RECURSIVE splitDocuments(_, _, _, _, _)
splitDocuments(docs, size, overlap, docIndex, acc) ==
    IF docIndex >= Len(docs) THEN acc
    ELSE LET doc == docs[docIndex + 1]
             cs == splitText(doc.content, size, overlap).chunks
             tagged == [k \in 1..Len(cs) |->
                          [content |-> cs[k], source |-> doc.source,
                           chunkIndex |-> k - 1,
                           originalDocIndex |-> docIndex]]
         IN  splitDocuments(docs, size, overlap, docIndex + 1, acc \o tagged)

\* The documents handed to splitDocuments
MaxDocs == 2

DocTexts == {"", "aa", "aaaa", "a.aa"}

Sources == {"a.txt", "b.txt"}

DocLists ==
    UNION {[1..n -> [content : DocTexts, source : Sources]] : n \in 0..MaxDocs}

\* new TextSplitter(chunkSize, chunkOverlap) and the entry of
\* splitDocuments(documents)
SplitDocsInit ==
    /\ text = ""
    /\ chunkSize \in 1..MaxChunkSize
    /\ chunkOverlap \in 0..(chunkSize - 1)
    /\ start = 0
    /\ chunks = <<>>
    /\ spc = "docs"
    /\ splitResult = <<>>
    /\ slices = <<>>
    /\ splitInput \in DocLists

\* splitDocuments returns, which it does when every splitText in it returns
SplitDocuments ==
    /\ spc = "docs"
    /\ \A i \in 1..Len(splitInput) :
          splitText(splitInput[i].content, chunkSize, chunkOverlap).returns
    /\ splitResult' = splitDocuments(splitInput, chunkSize, chunkOverlap, 0, <<>>)
    /\ spc' = "done"
    /\ UNCHANGED <<text, chunkSize, chunkOverlap, start, chunks, slices, splitInput>>
    /\ UNCHANGED <<ctxVars, storeVars, chatVars, backendVars, embedVars>>

\* The text of the worked example and the splitters it is given to
ExampleText == "Cats are mammals. Dogs are mammals too."

ExampleSizes == {10, 20}

ExampleOverlaps == {0, 5}

\* splitText on the example and on what precedes each of its characters
SplitExampleInit ==
    /\ text \in {SubSeq(ExampleText, 1, n) : n \in 0..Len(ExampleText)}
    /\ chunkSize \in ExampleSizes
    /\ chunkOverlap \in ExampleOverlaps
    /\ start = 0
    /\ chunks = <<>>
    /\ spc = "loop"
    /\ splitResult = <<>>
    /\ slices = <<>>
    /\ splitInput = <<>>

\* No generateEmbeddings call is modelled
EmbedIdle == ecall = [pc |-> "idle"]

(***************************************************************************)
(* ConversationContextService                                              *)
(***************************************************************************)
\* A falsy session id: "no id supplied" (createSession(sessionId = null))
NoId == ""

\* The session ids callers supply; generated ids come from uuidv4
SessionIds == {"s1"}

Roles == {"user", "assistant"}

\* Message contents: 2 characters (1 token) and 5 characters (2 tokens)
Contents == {"hi", "hello"}

NoMetadata == [sources |-> <<>>]

\* uuidv4(): a fresh id on every call
uuidv4 == ToString(nextUuid)

\* The service when it is not part of the specification
CtxIdle ==
    /\ conversations = <<>>
    /\ maxContextLength = 1
    /\ maxTokens = 1
    /\ nextUuid = 1
    /\ now = 0
    /\ lastCall = NoCall
    /\ ret = Null
    /\ received = <<>>

\* The constructor: an empty map and the two tunables from the environment
\* (parseInt(...) || default: a window of 0 is not a configuration)
CtxInit ==
    /\ conversations = <<>>
    /\ maxContextLength \in 1..MaxCtx
    /\ maxTokens \in 1..MaxTokens
    /\ nextUuid = 1
    /\ now = 0
    /\ lastCall = NoCall
    /\ ret = Null
    /\ received = <<>>

\* Math.ceil(n / 4)
CeilDiv4(n) == (n + 3) \div 4

RECURSIVE estimateTokens(_)
estimateTokens(messages) ==
    IF messages = <<>> THEN 0
    ELSE estimateTokens(Tail(messages)) + CeilDiv4(Len(Head(messages).content))

\* Mutant: the token loop keeps at least 3 messages instead of 2
RECURSIVE trimByTokensFloor3(_, _)
trimByTokensFloor3(messages, maxTok) ==
    IF estimateTokens(messages) > maxTok /\ Len(messages) > 3
    THEN trimByTokensFloor3(sliceFrom(messages, 1), maxTok)
    ELSE messages

\* Mutant: the token loop keeps at least 1 message instead of 2
RECURSIVE trimByTokensFloor1(_, _)
trimByTokensFloor1(messages, maxTok) ==
    IF estimateTokens(messages) > maxTok /\ Len(messages) > 1
    THEN trimByTokensFloor1(sliceFrom(messages, 1), maxTok)
    ELSE messages

\* The while loop of trimConversation (lines 495-500)
RECURSIVE trimByTokens(_, _)
trimByTokens(messages, maxTok) ==
    IF estimateTokens(messages) > maxTok /\ Len(messages) > 2
    THEN trimByTokens(sliceFrom(messages, 1), maxTok)
    ELSE messages

\* Mutant: the count cap is off by one
trimByCountOffByOne(messages, maxLen) ==
    IF Len(messages) > maxLen + 1 THEN sliceFrom(messages, -(maxLen + 1)) ELSE messages

\* Mutant: the count cap keeps the oldest messages
trimByCountOldest(messages, maxLen) ==
    IF Len(messages) > maxLen THEN slice(messages, 0, maxLen) ELSE messages

\* The first step of trimConversation (lines 489-492)
trimByCount(messages, maxLen) ==
    IF Len(messages) > maxLen THEN sliceFrom(messages, -maxLen) ELSE messages

\* The list trimConversation stores back into the session
trimConversation(messages, maxLen, maxTok) ==
    trimByTokens(trimByCount(messages, maxLen), maxTok)

\* conversations.set(id, a fresh empty session)
newSession(convs, id) ==
    (id :> [messages |-> <<>>, createdAt |-> now, lastAccessed |-> now]) @@ convs

\* What conversations.set is about to overwrite: the size and the creation
\* time of the session already under the id, if there is one
replacedBy(id) ==
    IF id \in DOMAIN conversations
    THEN [messageCount |-> Len(conversations[id].messages),
          createdAt |-> conversations[id].createdAt]
    ELSE Null

\* createSession that leaves a session it finds under the id alone
createSessionKeeps(sessionId) ==
    LET id == IF sessionId # NoId THEN sessionId ELSE uuidv4
    IN  /\ conversations' = IF id \in DOMAIN conversations THEN conversations
                            ELSE newSession(conversations, id)
        /\ nextUuid' = IF sessionId # NoId THEN nextUuid ELSE nextUuid + 1
        /\ ret' = id
        /\ lastCall' = [op |-> "createSession", sessionId |-> sessionId,
                        replaced |-> replacedBy(id)]
        /\ received' = IF id \in DOMAIN conversations THEN received
                       ELSE (id :> 0) @@ received
        /\ UNCHANGED <<maxContextLength, maxTokens, now>>

createSession(sessionId) ==
    LET id == IF sessionId # NoId THEN sessionId ELSE uuidv4
    IN  /\ conversations' = newSession(conversations, id)
        /\ nextUuid' = IF sessionId # NoId THEN nextUuid ELSE nextUuid + 1
        /\ ret' = id
        /\ lastCall' = [op |-> "createSession", sessionId |-> sessionId,
                        replaced |-> replacedBy(id)]
        /\ received' = (id :> 0) @@ received
        /\ UNCHANGED <<maxContextLength, maxTokens, now>>

\* Mutant: a message for an unknown session is dropped
addMessageToKnownOnly(convs, sessionId, message) ==
    IF sessionId \notin DOMAIN convs THEN convs
    ELSE [convs EXCEPT ![sessionId] =
            [@ EXCEPT !.messages = trimConversation(Append(@, message),
                                                    maxContextLength, maxTokens),
                      !.lastAccessed = now]]

\* The sessions after addMessage(sessionId, ...) has pushed message and trimmed
\* (sessionId is a supplied, non-empty id)
addMessageTo(convs, sessionId, message) ==
    LET created == IF sessionId \in DOMAIN convs THEN convs
                   ELSE newSession(convs, sessionId)
        pushed == Append(created[sessionId].messages, message)
    IN  [created EXCEPT ![sessionId] =
            [@ EXCEPT !.messages = trimConversation(pushed, maxContextLength, maxTokens),
                      !.lastAccessed = now]]

newMessage(id, role, content, metadata) ==
    [id |-> id, role |-> role, content |-> content, timestamp |-> now,
     metadata |-> metadata]

messagesOf(convs, sessionId) ==
    IF sessionId \in DOMAIN convs THEN convs[sessionId].messages ELSE <<>>

addMessage(sessionId, role, content, metadata) ==
    LET message == newMessage(uuidv4, role, content, metadata)
    IN  /\ conversations' = addMessageTo(conversations, sessionId, message)
        /\ nextUuid' = nextUuid + 1
        /\ ret' = message
        /\ lastCall' = [op |-> "addMessage", sessionId |-> sessionId,
                        existed |-> sessionId \in DOMAIN conversations,
                        before |-> messagesOf(conversations, sessionId)]
        /\ received' =
              IF sessionId \in DOMAIN conversations
              THEN [received EXCEPT ![sessionId] = Min(@ + 1, 3)]
              ELSE (sessionId :> 1) @@ received
        /\ UNCHANGED <<maxContextLength, maxTokens, now>>

buildSystemPrompt == "You are a specialist AI agent"

systemMessage == [role |-> "system", content |-> buildSystemPrompt, timestamp |-> now]

\* Mutant: the window is taken from the oldest end
contextOfOldest(sessionId, includeSystemMessage) ==
    IF sessionId \notin DOMAIN conversations
    THEN IF includeSystemMessage THEN <<systemMessage>> ELSE <<>>
    ELSE LET context == slice(conversations[sessionId].messages, 0, maxContextLength)
         IN  IF includeSystemMessage /\ Len(context) > 0
             THEN <<systemMessage>> \o context
             ELSE context

\* The value getContext returns
contextOf(sessionId, includeSystemMessage) ==
    IF sessionId \notin DOMAIN conversations
    THEN IF includeSystemMessage THEN <<systemMessage>> ELSE <<>>
    ELSE LET context == sliceFrom(conversations[sessionId].messages, -maxContextLength)
         IN  IF includeSystemMessage /\ Len(context) > 0
             THEN <<systemMessage>> \o context
             ELSE context

\* getContext that opens a session for an id it does not know
getContextCreates(sessionId, includeSystemMessage) ==
    /\ ret' = contextOf(sessionId, includeSystemMessage)
    /\ conversations' =
          IF sessionId \in DOMAIN conversations
          THEN [conversations EXCEPT ![sessionId].lastAccessed = now]
          ELSE newSession(conversations, sessionId)
    /\ lastCall' = [op |-> "getContext", sessionId |-> sessionId,
                    includeSystemMessage |-> includeSystemMessage]
    /\ UNCHANGED <<maxContextLength, maxTokens, nextUuid, now, received>>

getContext(sessionId, includeSystemMessage) ==
    /\ ret' = contextOf(sessionId, includeSystemMessage)
    /\ conversations' =
          IF sessionId \in DOMAIN conversations
          THEN [conversations EXCEPT ![sessionId].lastAccessed = now]
          ELSE conversations
    /\ lastCall' = [op |-> "getContext", sessionId |-> sessionId,
                    includeSystemMessage |-> includeSystemMessage]
    /\ UNCHANGED <<maxContextLength, maxTokens, nextUuid, now, received>>

\* The value getRecentContext(sessionId, excludeLast) returns
recentContextOf(sessionId, excludeLast) ==
    IF sessionId \notin DOMAIN conversations THEN <<>>
    ELSE LET messages == slice(conversations[sessionId].messages, 0, -excludeLast)
         IN  sliceFrom(messages, -maxContextLength)

getRecentContext(sessionId, excludeLast) ==
    /\ ret' = recentContextOf(sessionId, excludeLast)
    /\ lastCall' = [op |-> "getRecentContext", sessionId |-> sessionId,
                    excludeLast |-> excludeLast]
    /\ UNCHANGED ctxState

\* The value getConversationStats returns
statsOf(convs, sessionId) ==
    IF sessionId \notin DOMAIN convs THEN Null
    ELSE [messageCount |-> Len(convs[sessionId].messages),
          createdAt |-> convs[sessionId].createdAt,
          lastAccessed |-> convs[sessionId].lastAccessed,
          estimatedTokens |-> estimateTokens(convs[sessionId].messages)]

getConversationStats(sessionId) ==
    /\ ret' = statsOf(conversations, sessionId)
    /\ lastCall' = [op |-> "getConversationStats", sessionId |-> sessionId]
    /\ UNCHANGED <<conversations, maxContextLength, maxTokens, nextUuid, now,
                   received>>

\* clearConversation that puts a fresh session under the id
clearConversationRecreates(sessionId) ==
    /\ conversations' = newSession(conversations, sessionId)
    /\ ret' = Null
    /\ lastCall' = [op |-> "clearConversation", sessionId |-> sessionId,
                    existed |-> sessionId \in DOMAIN conversations]
    /\ received' = (sessionId :> 0) @@ received
    /\ UNCHANGED <<maxContextLength, maxTokens, nextUuid, now>>

clearConversation(sessionId) ==
    /\ conversations' =
          IF sessionId \in DOMAIN conversations
          THEN [conversations EXCEPT ![sessionId].messages = <<>>]
          ELSE conversations
    /\ ret' = Null
    /\ lastCall' = [op |-> "clearConversation", sessionId |-> sessionId,
                    existed |-> sessionId \in DOMAIN conversations]
    /\ received' =
          IF sessionId \in DOMAIN conversations
          THEN [received EXCEPT ![sessionId] = 0]
          ELSE received
    /\ UNCHANGED <<maxContextLength, maxTokens, nextUuid, now>>

\* deleteSession that empties the whole map
deleteSessionClearsAll(sessionId) ==
    /\ conversations' = <<>>
    /\ ret' = Null
    /\ lastCall' = [op |-> "deleteSession", sessionId |-> sessionId,
                    existed |-> sessionId \in DOMAIN conversations]
    /\ received' = <<>>
    /\ UNCHANGED <<maxContextLength, maxTokens, nextUuid, now>>

\* deleteSession that only empties the session
deleteSessionEmpties(sessionId) ==
    /\ conversations' =
          IF sessionId \in DOMAIN conversations
          THEN [conversations EXCEPT ![sessionId].messages = <<>>]
          ELSE conversations
    /\ ret' = Null
    /\ lastCall' = [op |-> "deleteSession", sessionId |-> sessionId,
                    existed |-> sessionId \in DOMAIN conversations]
    /\ received' = received
    /\ UNCHANGED <<maxContextLength, maxTokens, nextUuid, now>>

deleteSession(sessionId) ==
    /\ conversations' =
          [id \in DOMAIN conversations \ {sessionId} |-> conversations[id]]
    /\ ret' = Null
    /\ lastCall' = [op |-> "deleteSession", sessionId |-> sessionId,
                    existed |-> sessionId \in DOMAIN conversations]
    /\ received' = [id \in DOMAIN received \ {sessionId} |-> received[id]]
    /\ UNCHANGED <<maxContextLength, maxTokens, nextUuid, now>>

\* cleanupOldConversations that goes by the creation time
cleanupByCreation(maxAgeHours) ==
    LET cutoffTime == now - maxAgeHours
        old == {id \in DOMAIN conversations : conversations[id].createdAt < cutoffTime}
    IN  /\ conversations' = [id \in DOMAIN conversations \ old |-> conversations[id]]
        /\ received' = [id \in DOMAIN received \ old |-> received[id]]
        /\ ret' = Null
        /\ lastCall' = [op |-> "cleanupOldConversations",
                        maxAgeHours |-> maxAgeHours, removed |-> old]
        /\ UNCHANGED <<maxContextLength, maxTokens, nextUuid, now>>

\* cleanupOldConversations(maxAgeHours); the clock counts hours
cleanupOldConversations(maxAgeHours) ==
    LET cutoffTime == now - maxAgeHours
        old == {id \in DOMAIN conversations :
                   conversations[id].lastAccessed < cutoffTime}
    IN  /\ conversations' = [id \in DOMAIN conversations \ old |-> conversations[id]]
        /\ received' = [id \in DOMAIN received \ old |-> received[id]]
        /\ ret' = Null
        /\ lastCall' = [op |-> "cleanupOldConversations",
                        maxAgeHours |-> maxAgeHours, removed |-> old]
        /\ UNCHANGED <<maxContextLength, maxTokens, nextUuid, now>>

\* updateContextConfig that trims every session to the new limits at once
updateContextConfigTrims(maxLength, maxTok) ==
    /\ maxContextLength' = maxLength
    /\ maxTokens' = maxTok
    /\ ret' = Null
    /\ lastCall' = [op |-> "updateContextConfig", maxLength |-> maxLength,
                    maxTokens |-> maxTok, before |-> conversations]
    /\ conversations' =
          [id \in DOMAIN conversations |->
              [conversations[id] EXCEPT
                  !.messages = trimConversation(@, maxLength, maxTok)]]
    /\ UNCHANGED <<nextUuid, now, received>>

updateContextConfig(maxLength, maxTok) ==
    /\ maxContextLength' = maxLength
    /\ maxTokens' = maxTok
    /\ ret' = Null
    /\ lastCall' = [op |-> "updateContextConfig", maxLength |-> maxLength,
                    maxTokens |-> maxTok, before |-> conversations]
    /\ UNCHANGED <<conversations, nextUuid, now, received>>

\* The value getConfig() returns
getConfig ==
    [maxContextLength |-> maxContextLength, maxTokens |-> maxTokens,
     activeConversations |-> Cardinality(DOMAIN conversations)]

\* The ids a caller can name: the ones it chose and the ones it was given
KnownIds == SessionIds \cup DOMAIN conversations

CreateSession ==
    /\ nextUuid <= MaxUuid
    /\ \E sessionId \in SessionIds \cup {NoId} : createSession(sessionId)
    /\ UNCHANGED <<splitVars, embedVars, storeVars, chatVars, backendVars>>

AddMessage ==
    /\ nextUuid <= MaxUuid
    /\ \E sessionId \in KnownIds, role \in Roles, content \in Contents :
          addMessage(sessionId, role, content, NoMetadata)
    /\ UNCHANGED <<splitVars, embedVars, storeVars, chatVars, backendVars>>

GetContext ==
    /\ \E sessionId \in KnownIds, includeSystemMessage \in BOOLEAN :
          getContext(sessionId, includeSystemMessage)
    /\ UNCHANGED <<splitVars, embedVars, storeVars, chatVars, backendVars>>

GetConversationStats ==
    /\ \E sessionId \in KnownIds : getConversationStats(sessionId)
    /\ UNCHANGED <<splitVars, embedVars, storeVars, chatVars, backendVars>>

ClearConversation ==
    /\ \E sessionId \in KnownIds : clearConversation(sessionId)
    /\ UNCHANGED <<splitVars, embedVars, storeVars, chatVars, backendVars>>

DeleteSession ==
    /\ \E sessionId \in KnownIds : deleteSession(sessionId)
    /\ UNCHANGED <<splitVars, embedVars, storeVars, chatVars, backendVars>>

\* POST /conversation/config passes the two values on when both are truthy
UpdateContextConfig ==
    /\ \E maxLength \in 1..MaxCtx, maxTok \in 1..MaxTokens :
          updateContextConfig(maxLength, maxTok)
    /\ UNCHANGED <<splitVars, embedVars, storeVars, chatVars, backendVars>>

\* A user message, the content being immaterial
AddUserMessage ==
    /\ nextUuid <= MaxUuid
    /\ \E sessionId \in KnownIds : addMessage(sessionId, "user", "hi", NoMetadata)
    /\ UNCHANGED <<splitVars, embedVars, storeVars, chatVars, backendVars>>

\* The messages as they are, without the system message
GetMessages ==
    /\ \E sessionId \in KnownIds : getContext(sessionId, FALSE)
    /\ UNCHANGED <<splitVars, embedVars, storeVars, chatVars, backendVars>>

MaxAges == 0..MaxClock

CleanupOldConversations ==
    /\ \E maxAgeHours \in MaxAges : cleanupOldConversations(maxAgeHours)
    /\ UNCHANGED <<splitVars, embedVars, storeVars, chatVars, backendVars>>

ExcludeLasts == 0..MaxCtx

GetRecentContext ==
    /\ \E sessionId \in KnownIds, excludeLast \in ExcludeLasts :
          getRecentContext(sessionId, excludeLast)
    /\ UNCHANGED <<splitVars, embedVars, storeVars, chatVars, backendVars>>

CtxNext ==
    \/ CreateSession
    \/ AddMessage
    \/ GetContext
    \/ GetConversationStats
    \/ ClearConversation
    \/ DeleteSession

(***************************************************************************)
(* EmbeddingService and SimpleVectorStore                                  *)
(***************************************************************************)
\* Numbers that are not integers (similarities, distances) are kept in
\* hundredths: Unit stands for 1.0
Unit == 100

\* The embedding model, an external service: a fixed non-zero vector of one
\* dimensionality for each text
embeddingOf(t) ==
    CASE t = "cat" -> <<1, 0>>
      [] t = "dog" -> <<3, 4>>
      [] t = "car" -> <<0, 1>>
      [] OTHER -> <<-1, 0>>

\* Math.sqrt, on the perfect squares the vectors above produce
Sqrt(n) == CHOOSE r \in 0..n : r * r = n

RECURSIVE dot(_, _)
dot(a, b) == IF a = <<>> THEN 0 ELSE a[1] * b[1] + dot(Tail(a), Tail(b))

\* cosineSimilarity over the components both vectors have
cosineSimilarityCommon(a, b) ==
    LET n == Min(Len(a), Len(b))
        a1 == SubSeq(a, 1, n)
        b1 == SubSeq(b, 1, n)
    IN  IF dot(a1, a1) = 0 \/ dot(b1, b1) = 0 THEN 0
        ELSE (dot(a1, b1) * Unit) \div (Sqrt(dot(a1, a1)) * Sqrt(dot(b1, b1)))

cosineSimilarity(a, b) ==
    IF Len(a) # Len(b) THEN 0
    ELSE (dot(a, b) * Unit) \div (Sqrt(dot(a, a)) * Sqrt(dot(b, b)))

\* Array.prototype.sort((a, b) => b.similarity - a.similarity): a stable
\* sort, each element placed after the ones that do not compare after it
insertAscending(sorted, x) ==
    SelectSeq(sorted, LAMBDA e : e.similarity <= x.similarity)
        \o <<x>> \o SelectSeq(sorted, LAMBDA e : e.similarity > x.similarity)

insertBySimilarity(sorted, x) ==
    SelectSeq(sorted, LAMBDA e : e.similarity >= x.similarity)
        \o <<x>> \o SelectSeq(sorted, LAMBDA e : e.similarity < x.similarity)

RECURSIVE sortBySimilarity(_)
sortBySimilarity(results) ==
    IF results = <<>> THEN <<>>
    ELSE insertBySimilarity(sortBySimilarity(SubSeq(results, 1, Len(results) - 1)),
                            results[Len(results)])

\* One result per stored record, in store order (lines 172-183)
\* The value of a property that is not there
Undefined == [undefined |-> TRUE]

\* array[index], index counting from 1 here
elementAt(array, index) ==
    IF index \in 1..Len(array) THEN array[index] ELSE Undefined

scoredRecords(queryEmbedding) ==
    [index \in 1..Len(embeddings) |->
        LET similarity == cosineSimilarity(queryEmbedding, embeddings[index])
        IN  [content |-> elementAt(documents, index),
             metadata |-> elementAt(metadatas, index),
             distance |-> Unit - similarity,
             similarity |-> similarity]]

\* What similarity_search returns once the query embedding has arrived
searchResults(queryEmbedding, k) ==
    slice(sortBySimilarity(scoredRecords(queryEmbedding)), 0, k)

\* The chunks handed to addDocuments; the second has no source and no title
Chunks ==
    {[content |-> "cat", source |-> "pets.txt", title |-> "pets", chunkIndex |-> 0],
     [content |-> "dog", source |-> "", title |-> "", chunkIndex |-> 1]}

Batches == UNION {[1..n -> Chunks] : n \in 0..MaxStore}

Queries == {"cat", "car"}

\* The values of k asked for: up to more than the store can hold
Ks == 0..(MaxStore + 1)

metadataOf(doc) ==
    [source |-> IF doc.source # "" THEN doc.source ELSE "unknown",
     title |-> IF doc.title # "" THEN doc.title ELSE "untitled",
     chunk_index |-> doc.chunkIndex]

\* `doc_${Date.now()}_${index}`
docId(index) == "doc_" \o ToString(now) \o "_" \o ToString(index)

\* The object saveToStorage writes, taken when the write is issued
snapshotOf(docs, embs, metas, idents) ==
    [documents |-> docs, embeddings |-> embs, metadatas |-> metas, ids |-> idents,
     collectionName |-> "specialist-agent"]

NoFile == [missing |-> TRUE]

\* A file fs.readFile cannot read
Unreadable == [unreadable |-> TRUE]

\* JSON texts, as the values they denote; NotJson is a text JSON.parse rejects
NotJson == [json |-> "invalid"]

JsonNull == [json |-> "null"]

jsonString(str) == [json |-> "string", value |-> str]

jsonNumber(n) == [json |-> "number", value |-> n]

jsonArray(items) == [json |-> "array", items |-> items]

jsonObject(fields) == [json |-> "object", fields |-> fields]

\* JSON.stringify(data, null, 2) of the object saveToStorage builds: strings,
\* finite numbers, arrays and plain objects
stringify(data) ==
    jsonObject(
        [documents |-> jsonArray([i \in 1..Len(data.documents) |->
                                    jsonString(data.documents[i])]),
         embeddings |-> jsonArray([i \in 1..Len(data.embeddings) |->
                          jsonArray([j \in 1..Len(data.embeddings[i]) |->
                                       jsonNumber(data.embeddings[i][j])])]),
         metadatas |-> jsonArray([i \in 1..Len(data.metadatas) |->
                          jsonObject(
                              [source |-> jsonString(data.metadatas[i].source),
                               title |-> jsonString(data.metadatas[i].title),
                               chunk_index |->
                                   jsonNumber(data.metadatas[i].chunk_index)])]),
         ids |-> jsonArray([i \in 1..Len(data.ids) |-> jsonString(data.ids[i])]),
         collectionName |-> jsonString(data.collectionName)])

\* The value JSON.parse builds from a JSON text
RECURSIVE parse(_)
parse(j) ==
    CASE j.json = "string" -> j.value
      [] j.json = "number" -> j.value
      [] j.json = "array" -> [i \in 1..Len(j.items) |-> parse(j.items[i])]
      [] j.json = "object" -> [key \in DOMAIN j.fields |-> parse(j.fields[key])]
      [] j.json = "null" -> Null

\* The arrays of a new SimpleVectorStore()
EmptyStore == [documents |-> <<>>, embeddings |-> <<>>, metadatas |-> <<>>, ids |-> <<>>]

\* parsed[key] || []
arrayOr(j, key) ==
    IF key \notin DOMAIN j.fields THEN <<>>
    ELSE LET v == j.fields[key]
         IN  IF \/ v.json = "null"
                \/ v.json = "string" /\ v.value = ""
                \/ v.json = "number" /\ v.value = 0
             THEN <<>>
             ELSE parse(v)

\* loadFromStorage that fills the arrays back to front
loadReversed(cur, file) ==
    IF file \in {NoFile, Unreadable} THEN cur
    ELSE IF file.json # "object" THEN cur
    ELSE LET reversed(seq) == [i \in 1..Len(seq) |-> seq[Len(seq) + 1 - i]]
         IN  [documents |-> reversed(arrayOr(file, "documents")),
              embeddings |-> reversed(arrayOr(file, "embeddings")),
              metadatas |-> reversed(arrayOr(file, "metadatas")),
              ids |-> reversed(arrayOr(file, "ids"))]

\* loadFromStorage on a store holding cur: the four arrays afterwards.  A
\* failing readFile or JSON.parse, and the TypeError of null.documents, are
\* caught before the first assignment
loadFromStorage(cur, file) ==
    IF file \in {NoFile, Unreadable} THEN cur
    ELSE IF file.json \in {"invalid", "null"} THEN cur
    ELSE IF file.json # "object" THEN EmptyStore
    ELSE [documents |-> arrayOr(file, "documents"),
          embeddings |-> arrayOr(file, "embeddings"),
          metadatas |-> arrayOr(file, "metadatas"),
          ids |-> arrayOr(file, "ids")]

Idle == [op |-> "idle", pc |-> "idle"]

\* The requests that can be in progress at a time
CallIds == {1, 2}

\* The constructor, with no snapshot on disk
StoreInit ==
    /\ documents = <<>>
    /\ embeddings = <<>>
    /\ metadatas = <<>>
    /\ ids = <<>>
    /\ storageFile = NoFile
    /\ scalls = [c \in CallIds |-> Idle]

\* similarity_search(query, k) up to its first await; on an empty store it
\* returns at once
searchCall(c, query, k) ==
    /\ scalls[c] = Idle
    /\ IF Len(embeddings) = 0
       THEN /\ lastCall' = [op |-> "similarity_search", outcome |-> "returned",
                            query |-> query, k |-> k, requested |-> FALSE,
                            seen |-> Len(ids)]
            /\ ret' = <<>>
            /\ UNCHANGED scalls
       ELSE /\ scalls' = [scalls EXCEPT ![c] =
                  [op |-> "similarity_search", pc |-> "embedding", query |-> query,
                   k |-> k, seen |-> Len(ids)]]
            /\ lastCall' = NoCall
            /\ ret' = Null
    /\ UNCHANGED <<documents, embeddings, metadatas, ids, storageFile>>

\* generateEmbedding(query) resolves: the scan, the sort, the slice, the return
searchEmbedded(c) ==
    /\ scalls[c].op = "similarity_search"
    /\ scalls[c].pc = "embedding"
    /\ ret' = searchResults(embeddingOf(scalls[c].query), scalls[c].k)
    /\ lastCall' = [op |-> "similarity_search", outcome |-> "returned",
                    query |-> scalls[c].query, k |-> scalls[c].k, requested |-> TRUE,
                    seen |-> scalls[c].seen]
    /\ scalls' = [scalls EXCEPT ![c] = Idle]
    /\ UNCHANGED <<documents, embeddings, metadatas, ids, storageFile>>

\* addDocuments that keeps the records embedded before the failing chunk
embedFailedPartial(c) ==
    /\ scalls[c].op \in {"similarity_search", "addDocuments"}
    /\ scalls[c].pc = "embedding"
    /\ scalls[c].op = "addDocuments" => Len(scalls[c].docs) > 0
    /\ ret' = Null
    /\ scalls' = [scalls EXCEPT ![c] = Idle]
    /\ IF scalls[c].op = "similarity_search"
       THEN /\ lastCall' = [op |-> scalls[c].op, outcome |-> "threw"]
            /\ UNCHANGED <<documents, embeddings, metadatas, ids, storageFile>>
       ELSE \E failed \in 1..Len(scalls[c].docs) :
              LET docs == SubSeq(scalls[c].docs, 1, failed - 1)
              IN  /\ lastCall' = [op |-> scalls[c].op, outcome |-> "threw",
                                  docs |-> scalls[c].docs, failed |-> failed]
                  /\ documents' = documents \o [i \in 1..Len(docs) |-> docs[i].content]
                  /\ embeddings' = embeddings
                         \o [i \in 1..Len(docs) |-> embeddingOf(docs[i].content)]
                  /\ metadatas' = metadatas \o [i \in 1..Len(docs) |-> metadataOf(docs[i])]
                  /\ ids' = ids \o [i \in 1..Len(docs) |-> docId(i - 1)]
                  /\ UNCHANGED storageFile

\* generateEmbedding rejects, or generateEmbeddings does because the request
\* for chunk number `failed` of its batch was rejected: the call throws
embedFailed(c) ==
    /\ scalls[c].op \in {"similarity_search", "addDocuments"}
    /\ scalls[c].pc = "embedding"
    /\ scalls[c].op = "addDocuments" => Len(scalls[c].docs) > 0
    /\ IF scalls[c].op = "similarity_search"
       THEN lastCall' = [op |-> scalls[c].op, outcome |-> "threw"]
       ELSE \E failed \in 1..Len(scalls[c].docs) :
              lastCall' = [op |-> scalls[c].op, outcome |-> "threw",
                           docs |-> scalls[c].docs, failed |-> failed]
    /\ ret' = Null
    /\ scalls' = [scalls EXCEPT ![c] = Idle]
    /\ UNCHANGED <<documents, embeddings, metadatas, ids, storageFile>>

\* addDocuments(docs) up to the await of generateEmbeddings
addCall(c, docs) ==
    /\ scalls[c] = Idle
    /\ scalls' = [scalls EXCEPT ![c] =
          [op |-> "addDocuments", pc |-> "embedding", docs |-> docs]]
    /\ lastCall' = NoCall
    /\ ret' = Null
    /\ UNCHANGED <<documents, embeddings, metadatas, ids, storageFile>>

\* addDocuments that puts its records in front of the stored ones
addEmbeddedPrepends(c) ==
    /\ scalls[c].op = "addDocuments"
    /\ scalls[c].pc = "embedding"
    /\ LET docs == scalls[c].docs
           docs1 == [i \in 1..Len(docs) |-> docs[i].content] \o documents
           embs1 == [i \in 1..Len(docs) |-> embeddingOf(docs[i].content)] \o embeddings
           metas1 == [i \in 1..Len(docs) |-> metadataOf(docs[i])] \o metadatas
           ids1 == [i \in 1..Len(docs) |-> docId(i - 1)] \o ids
       IN  /\ documents' = docs1
           /\ embeddings' = embs1
           /\ metadatas' = metas1
           /\ ids' = ids1
           /\ scalls' = [scalls EXCEPT ![c] =
                 [op |-> "addDocuments", pc |-> "writing",
                  data |-> stringify(snapshotOf(docs1, embs1, metas1, ids1))]]
    /\ lastCall' = NoCall
    /\ ret' = Null
    /\ UNCHANGED storageFile

\* addDocuments that pushes the metadatas of a batch in the opposite order
addEmbeddedCrossed(c) ==
    /\ scalls[c].op = "addDocuments"
    /\ scalls[c].pc = "embedding"
    /\ LET docs == scalls[c].docs
           n == Len(docs)
           docs1 == documents \o [i \in 1..n |-> docs[i].content]
           embs1 == embeddings \o [i \in 1..n |-> embeddingOf(docs[i].content)]
           metas1 == metadatas \o [i \in 1..n |-> metadataOf(docs[n + 1 - i])]
           ids1 == ids \o [i \in 1..n |-> docId(i - 1)]
       IN  /\ documents' = docs1
           /\ embeddings' = embs1
           /\ metadatas' = metas1
           /\ ids' = ids1
           /\ scalls' = [scalls EXCEPT ![c] =
                 [op |-> "addDocuments", pc |-> "writing",
                  data |-> stringify(snapshotOf(docs1, embs1, metas1, ids1))]]
    /\ lastCall' = NoCall
    /\ ret' = Null
    /\ UNCHANGED storageFile

\* generateEmbeddings resolves: the ids, the metadatas, the four pushes and
\* the start of saveToStorage
addEmbedded(c) ==
    /\ scalls[c].op = "addDocuments"
    /\ scalls[c].pc = "embedding"
    /\ LET docs == scalls[c].docs
           docs1 == documents \o [i \in 1..Len(docs) |-> docs[i].content]
           embs1 == embeddings \o [i \in 1..Len(docs) |-> embeddingOf(docs[i].content)]
           metas1 == metadatas \o [i \in 1..Len(docs) |-> metadataOf(docs[i])]
           ids1 == ids \o [i \in 1..Len(docs) |-> docId(i - 1)]
       IN  /\ documents' = docs1
           /\ embeddings' = embs1
           /\ metadatas' = metas1
           /\ ids' = ids1
           /\ scalls' = [scalls EXCEPT ![c] =
                 [op |-> "addDocuments", pc |-> "writing",
                  data |-> stringify(snapshotOf(docs1, embs1, metas1, ids1))]]
    /\ lastCall' = NoCall
    /\ ret' = Null
    /\ UNCHANGED storageFile

\* clear() up to the await inside saveToStorage
clearCall(c) ==
    /\ scalls[c] = Idle
    /\ documents' = <<>>
    /\ embeddings' = <<>>
    /\ metadatas' = <<>>
    /\ ids' = <<>>
    /\ scalls' = [scalls EXCEPT ![c] =
          [op |-> "clear", pc |-> "writing",
           data |-> stringify(snapshotOf(<<>>, <<>>, <<>>, <<>>))]]
    /\ lastCall' = NoCall
    /\ ret' = Null
    /\ UNCHANGED storageFile

\* fs.writeFile resolves: the file holds the data of this call; the call returns
writeDone(c) ==
    /\ scalls[c].op \in {"addDocuments", "clear"}
    /\ scalls[c].pc = "writing"
    /\ storageFile' = scalls[c].data
    /\ ret' = Null
    /\ lastCall' = [op |-> scalls[c].op, outcome |-> "returned", written |-> TRUE,
                    data |-> scalls[c].data]
    /\ scalls' = [scalls EXCEPT ![c] = Idle]
    /\ UNCHANGED <<documents, embeddings, metadatas, ids>>

\* saveToStorage without its catch: the rejection of fs.writeFile reaches the
\* caller
writeFailedThrows(c) ==
    /\ scalls[c].op \in {"addDocuments", "clear"}
    /\ scalls[c].pc = "writing"
    /\ ret' = Null
    /\ lastCall' = [op |-> scalls[c].op, outcome |-> "threw", written |-> FALSE,
                    data |-> scalls[c].data]
    /\ scalls' = [scalls EXCEPT ![c] = Idle]
    /\ UNCHANGED <<documents, embeddings, metadatas, ids, storageFile>>

\* fs.writeFile rejects: saveToStorage logs the error; the call returns
writeFailed(c) ==
    /\ scalls[c].op \in {"addDocuments", "clear"}
    /\ scalls[c].pc = "writing"
    /\ ret' = Null
    /\ lastCall' = [op |-> scalls[c].op, outcome |-> "returned", written |-> FALSE,
                    data |-> scalls[c].data]
    /\ scalls' = [scalls EXCEPT ![c] = Idle]
    /\ UNCHANGED <<documents, embeddings, metadatas, ids, storageFile>>

\* initialize() with an uncaught read or parse error
initializeUncaught(file) ==
    IF file \in {NoFile, Unreadable} THEN "threw"
    ELSE IF file.json \in {"invalid", "null"} THEN "threw"
    ELSE "returned"

\* How initialize() ends: loadFromStorage catches what readFile and
\* JSON.parse throw, and initialize has a catch of its own
initializeOutcome(file) == "returned"

\* The process ends and starts again: the constructor, then initialize();
\* the calls that were in flight are gone
restart ==
    /\ LET loaded == loadFromStorage(EmptyStore, storageFile)
       IN  /\ documents' = loaded.documents
           /\ embeddings' = loaded.embeddings
           /\ metadatas' = loaded.metadatas
           /\ ids' = loaded.ids
    /\ scalls' = [c \in CallIds |-> Idle]
    /\ lastCall' = [op |-> "initialize", outcome |-> initializeOutcome(storageFile),
                    file |-> storageFile,
                    before |-> [documents |-> documents, embeddings |-> embeddings,
                                metadatas |-> metadatas, ids |-> ids],
                    searchBefore |-> [query \in Queries |-> [k \in Ks |->
                                        searchResults(embeddingOf(query), k)]]]
    /\ ret' = Null
    /\ UNCHANGED storageFile

\* The requests SearchCall, AddCall and ClearCall start: one search and one
\* mutation (addDocuments or clear) can be in flight together
SearchSlots == {2}

MutationSlots == {1}

\* The number of records the addDocuments calls in flight are about to push
RECURSIVE pendingRecords(_)
pendingRecords(cs) ==
    IF cs = {} THEN 0
    ELSE LET c == CHOOSE x \in cs : TRUE
         IN  pendingRecords(cs \ {c}) +
             (IF scalls[c].op = "addDocuments" /\ scalls[c].pc = "embedding"
              THEN Len(scalls[c].docs) ELSE 0)

SearchCall ==
    /\ \E c \in SearchSlots, query \in Queries, k \in Ks : searchCall(c, query, k)
    /\ UNCHANGED <<splitVars, embedVars, ctxState, chatVars, backendVars>>

SearchEmbedded ==
    /\ \E c \in CallIds : searchEmbedded(c)
    /\ UNCHANGED <<splitVars, embedVars, ctxState, chatVars, backendVars>>

EmbedFailed ==
    /\ \E c \in CallIds : embedFailed(c)
    /\ UNCHANGED <<splitVars, embedVars, ctxState, chatVars, backendVars>>

AddCall ==
    /\ \E c \in MutationSlots, docs \in Batches :
          /\ Len(documents) + pendingRecords(CallIds) + Len(docs) <= MaxStore
          /\ addCall(c, docs)
    /\ UNCHANGED <<splitVars, embedVars, ctxState, chatVars, backendVars>>

AddEmbedded ==
    /\ \E c \in CallIds : addEmbedded(c)
    /\ UNCHANGED <<splitVars, embedVars, ctxState, chatVars, backendVars>>

ClearCall ==
    /\ \E c \in MutationSlots : clearCall(c)
    /\ UNCHANGED <<splitVars, embedVars, ctxState, chatVars, backendVars>>

WriteDone ==
    /\ \E c \in CallIds : writeDone(c)
    /\ UNCHANGED <<splitVars, embedVars, ctxState, chatVars, backendVars>>

WriteFailed ==
    /\ \E c \in CallIds : writeFailed(c)
    /\ UNCHANGED <<splitVars, embedVars, ctxState, chatVars, backendVars>>

Restart ==
    /\ restart
    /\ UNCHANGED <<splitVars, embedVars, ctxState, chatVars, backendVars>>

\* addDocuments and clear from any request
ConcurrentAddCall ==
    /\ \E c \in CallIds, docs \in Batches :
          /\ Len(documents) + pendingRecords(CallIds) + Len(docs) <= MaxStore
          /\ addCall(c, docs)
    /\ UNCHANGED <<splitVars, embedVars, ctxState, chatVars, backendVars>>

ConcurrentClearCall ==
    /\ \E c \in CallIds : clearCall(c)
    /\ UNCHANGED <<splitVars, embedVars, ctxState, chatVars, backendVars>>

\* Date.now() moves on between two steps
Tick ==
    /\ now < MaxClock
    /\ now' = now + 1
    /\ lastCall' = NoCall
    /\ ret' = Null
    /\ UNCHANGED <<conversations, maxContextLength, maxTokens, nextUuid, received>>
    /\ UNCHANGED <<splitVars, embedVars, storeVars, chatVars, backendVars>>

StoreNext ==
    \/ SearchCall
    \/ SearchEmbedded
    \/ EmbedFailed
    \/ AddCall
    \/ AddEmbedded
    \/ ClearCall
    \/ WriteDone
    \/ WriteFailed

(***************************************************************************)
(* ChatService                                                             *)
(***************************************************************************)
Questions == {"cat"}

\* The chat model, an external service: its answers
Answers == {"yes"}

\* Array.prototype.join
RECURSIVE join(_, _)
join(parts, sep) ==
    IF parts = <<>> THEN ""
    ELSE IF Len(parts) = 1 THEN parts[1]
    ELSE parts[1] \o sep \o join(Tail(parts), sep)

\* String.prototype.substring(0, n)
substring0(str, n) == SubSeq(str, 1, Min(n, Len(str)))

\* getConversationSummary that marks a content of 100 characters as cut
getConversationSummaryMarks(convs, sessionId) ==
    IF sessionId \notin DOMAIN convs THEN ""
    ELSE LET recentMessages == sliceFrom(convs[sessionId].messages, -5)
             line(msg) == msg.role \o ": " \o substring0(msg.content, 100)
                          \o (IF Len(msg.content) >= 100 THEN "..." ELSE "")
         IN  IF Len(recentMessages) = 0 THEN ""
             ELSE "Recent conversation context:\n"
                  \o join([i \in 1..Len(recentMessages) |-> line(recentMessages[i])],
                          "\n")

\* getConversationSummary(sessionId)
getConversationSummary(convs, sessionId) ==
    IF sessionId \notin DOMAIN convs THEN ""
    ELSE LET recentMessages == sliceFrom(convs[sessionId].messages, -5)
             line(msg) == msg.role \o ": " \o substring0(msg.content, 100)
                          \o (IF Len(msg.content) > 100 THEN "..." ELSE "")
         IN  IF Len(recentMessages) = 0 THEN ""
             ELSE "Recent conversation context:\n"
                  \o join([i \in 1..Len(recentMessages) |-> line(recentMessages[i])],
                          "\n")

GetConversationSummary ==
    /\ \E sessionId \in KnownIds :
          /\ ret' = getConversationSummary(conversations, sessionId)
          /\ lastCall' = [op |-> "getConversationSummary", sessionId |-> sessionId]
    /\ UNCHANGED ctxState
    /\ UNCHANGED <<splitVars, embedVars, storeVars, chatVars, backendVars>>

\* buildPrompt(query, documentContext, conversationContext = ''); the fixed
\* instruction texts are abbreviated
buildPrompt(query, documentContext, conversationContext) ==
    "You are a specialist AI agent.\n\nDocument Context:\n" \o documentContext
    \o (IF conversationContext # ""
        THEN "\n\nConversation Context:\n" \o conversationContext
        ELSE "")
    \o "\n\nQuestion: " \o query \o "\n\nInstructions:\n- Answer\n\nAnswer:"

\* The prompt generateResponse(query, context = '') sends to the chat model:
\* it has two parameters and calls buildPrompt(query, context)
generateResponsePrompt(query, context) == buildPrompt(query, context, "")

\* The document-context block of answerQuestion (lines 36-38)
documentContextOf(relevantDocs) ==
    join([i \in 1..Len(relevantDocs) |->
            "Source: " \o relevantDocs[i].metadata.source \o "\n"
            \o relevantDocs[i].content],
         "\n\n---\n\n")

sourcesOf(relevantDocs) ==
    [i \in 1..Len(relevantDocs) |->
        [source |-> relevantDocs[i].metadata.source,
         title |-> relevantDocs[i].metadata.title,
         similarity |-> Unit - relevantDocs[i].distance]]

ChatInit == qcalls = [c \in CallIds |-> Idle]

\* answerQuestion from the retrieved documents to the chat request
\* (lines 36-51): the summary is fetched, and the prompt is built from the
\* question and the document context
chatRequest(call, relevantDocs) ==
    LET documentContext == documentContextOf(relevantDocs)
        conversationContextText ==
            IF call.sessionId # NoId
            THEN getConversationSummary(conversations, call.sessionId)
            ELSE ""
    IN  [op |-> "answerQuestion", pc |-> "chatting", question |-> call.question,
         sessionId |-> call.sessionId, existedAtCall |-> call.existedAtCall,
         relevantDocs |-> relevantDocs,
         conversationContextText |-> conversationContextText,
         prompt |-> generateResponsePrompt(call.question, documentContext)]

\* answerQuestion that stores the question when it is called
answerCallStoresQuestion(c, question, sessionId) ==
    /\ qcalls[c] = Idle
    /\ LET call == [op |-> "answerQuestion", pc |-> "embedding",
                    question |-> question, sessionId |-> sessionId,
                    existedAtCall |-> sessionId \in DOMAIN conversations]
       IN  qcalls' = [qcalls EXCEPT ![c] =
              IF Len(embeddings) = 0 THEN chatRequest(call, <<>>) ELSE call]
    /\ lastCall' = NoCall
    /\ ret' = Null
    /\ conversations' =
          IF sessionId = NoId THEN conversations
          ELSE addMessageTo(conversations, sessionId,
                   newMessage(ToString(nextUuid), "user", question, NoMetadata))
    /\ nextUuid' = nextUuid + 1
    /\ UNCHANGED <<maxContextLength, maxTokens, now, received, storeVars>>

\* answerQuestion(question, sessionId) up to its first pending request; the
\* search of an empty store returns without one
answerCall(c, question, sessionId) ==
    /\ qcalls[c] = Idle
    /\ LET call == [op |-> "answerQuestion", pc |-> "embedding",
                    question |-> question, sessionId |-> sessionId,
                    existedAtCall |-> sessionId \in DOMAIN conversations]
       IN  qcalls' = [qcalls EXCEPT ![c] =
              IF Len(embeddings) = 0 THEN chatRequest(call, <<>>) ELSE call]
    /\ lastCall' = NoCall
    /\ ret' = Null
    /\ UNCHANGED <<ctxState, storeVars>>

\* The embedding of the question arrives: the top 5 documents, then the chat
\* request
answerEmbedded(c) ==
    /\ qcalls[c].pc = "embedding"
    /\ qcalls' = [qcalls EXCEPT ![c] =
          chatRequest(qcalls[c], searchResults(embeddingOf(qcalls[c].question), 5))]
    /\ lastCall' = NoCall
    /\ ret' = Null
    /\ UNCHANGED <<ctxState, storeVars>>

\* answerQuestion that stores the question before it throws
answerFailedAfterQuestion(c) ==
    /\ qcalls[c].pc \in {"embedding", "chatting"}
    /\ lastCall' = [op |-> "answerQuestion", outcome |-> "threw",
                    sessionId |-> qcalls[c].sessionId, failure |-> qcalls[c].pc]
    /\ ret' = Null
    /\ qcalls' = [qcalls EXCEPT ![c] = Idle]
    /\ conversations' =
          IF qcalls[c].sessionId = NoId THEN conversations
          ELSE addMessageTo(conversations, qcalls[c].sessionId,
                   newMessage(ToString(nextUuid), "user", qcalls[c].question,
                              NoMetadata))
    /\ received' =
          IF qcalls[c].sessionId = NoId THEN received
          ELSE IF qcalls[c].sessionId \in DOMAIN conversations
          THEN [received EXCEPT ![qcalls[c].sessionId] = Min(@ + 1, 3)]
          ELSE (qcalls[c].sessionId :> 1) @@ received
    /\ UNCHANGED <<maxContextLength, maxTokens, nextUuid, now, storeVars>>

\* The embedding request or the chat request fails: answerQuestion throws
answerFailed(c) ==
    /\ qcalls[c].pc \in {"embedding", "chatting"}
    /\ lastCall' = [op |-> "answerQuestion", outcome |-> "threw",
                    sessionId |-> qcalls[c].sessionId, failure |-> qcalls[c].pc]
    /\ ret' = Null
    /\ qcalls' = [qcalls EXCEPT ![c] = Idle]
    /\ UNCHANGED <<ctxState, storeVars>>

\* storeTurn without the user message
storeAnswerOnly(sessionId, question, response, sources) ==
    LET created == IF sessionId \in DOMAIN conversations THEN conversations
                   ELSE newSession(conversations, sessionId)
    IN  addMessageTo(created, sessionId,
            newMessage(ToString(nextUuid + 1), "assistant", response,
                       [sources |-> sources]))

\* The sessions after the turn has been stored (lines 54-77)
storeTurn(sessionId, question, response, sources) ==
    LET created == IF sessionId \in DOMAIN conversations THEN conversations
                   ELSE newSession(conversations, sessionId)
        asked == addMessageTo(created, sessionId,
                     newMessage(ToString(nextUuid), "user", question, NoMetadata))
    IN  addMessageTo(asked, sessionId,
            newMessage(ToString(nextUuid + 1), "assistant", response,
                       [sources |-> sources]))

\* The chat model answers: the turn is stored and the answer returned
answerChatted(c, response) ==
    /\ qcalls[c].pc = "chatting"
    /\ LET call == qcalls[c]
           sources == sourcesOf(call.relevantDocs)
       IN  /\ ret' = [answer |-> response, sources |-> sources,
                      sessionId |-> call.sessionId]
           /\ lastCall' = [op |-> "answerQuestion", outcome |-> "returned",
                           sessionId |-> call.sessionId, question |-> call.question,
                           existedAtCall |-> call.existedAtCall,
                           before |-> messagesOf(conversations, call.sessionId)]
           /\ IF call.sessionId # NoId
              THEN /\ conversations' =
                         storeTurn(call.sessionId, call.question, response, sources)
                   /\ nextUuid' = nextUuid + 2
                   /\ received' =
                         IF call.sessionId \in DOMAIN conversations
                         THEN [received EXCEPT ![call.sessionId] = Min(@ + 2, 3)]
                         ELSE (call.sessionId :> 2) @@ received
              ELSE UNCHANGED <<conversations, nextUuid, received>>
    /\ qcalls' = [qcalls EXCEPT ![c] = Idle]
    /\ UNCHANGED <<maxContextLength, maxTokens, now, storeVars>>

\* Where the storing of the turn can throw: in createSession, in the
\* addMessage of the question or in the addMessage of the answer
RecordSteps == {"createSession", "user", "assistant"}

\* The sessions when the storing of the turn throws at `point`: what the
\* statements before it have done
storeTurnUpTo(point, sessionId, question) ==
    LET created == IF sessionId \in DOMAIN conversations THEN conversations
                   ELSE newSession(conversations, sessionId)
    IN  CASE point = "createSession" -> conversations
          [] point = "user" -> created
          [] point = "assistant" ->
               addMessageTo(created, sessionId,
                   newMessage(ToString(nextUuid), "user", question, NoMetadata))

\* The messages each session has received when the storing throws at `point`
receivedUpTo(point, sessionId) ==
    LET created == IF sessionId \in DOMAIN conversations THEN received
                   ELSE (sessionId :> 0) @@ received
    IN  CASE point = "createSession" -> received
          [] point = "user" -> created
          [] point = "assistant" -> [created EXCEPT ![sessionId] = Min(@ + 1, 3)]

\* answerQuestion without the catch around the storing of the turn
answerRecordFailedThrows(c, response, point) ==
    /\ qcalls[c].pc = "chatting"
    /\ qcalls[c].sessionId # NoId
    /\ point = "createSession" => qcalls[c].sessionId \notin DOMAIN conversations
    /\ ret' = Null
    /\ lastCall' = [op |-> "answerQuestion", outcome |-> "threw",
                    sessionId |-> qcalls[c].sessionId, recordFailedAt |-> point,
                    response |-> response, relevantDocs |-> qcalls[c].relevantDocs]
    /\ conversations' =
          storeTurnUpTo(point, qcalls[c].sessionId, qcalls[c].question)
    /\ received' = receivedUpTo(point, qcalls[c].sessionId)
    /\ nextUuid' = IF point = "assistant" THEN nextUuid + 1 ELSE nextUuid
    /\ qcalls' = [qcalls EXCEPT ![c] = Idle]
    /\ UNCHANGED <<maxContextLength, maxTokens, now, storeVars>>

\* The chat model answers and the storing of the turn throws at `point`: the
\* catch logs it and the answer is returned
answerRecordFailed(c, response, point) ==
    /\ qcalls[c].pc = "chatting"
    /\ qcalls[c].sessionId # NoId
    /\ point = "createSession" => qcalls[c].sessionId \notin DOMAIN conversations
    /\ ret' = [answer |-> response, sources |-> sourcesOf(qcalls[c].relevantDocs),
               sessionId |-> qcalls[c].sessionId]
    /\ lastCall' = [op |-> "answerQuestion", outcome |-> "returned",
                    sessionId |-> qcalls[c].sessionId, recordFailedAt |-> point,
                    response |-> response, relevantDocs |-> qcalls[c].relevantDocs]
    /\ conversations' =
          storeTurnUpTo(point, qcalls[c].sessionId, qcalls[c].question)
    /\ received' = receivedUpTo(point, qcalls[c].sessionId)
    /\ nextUuid' = IF point = "assistant" THEN nextUuid + 1 ELSE nextUuid
    /\ qcalls' = [qcalls EXCEPT ![c] = Idle]
    /\ UNCHANGED <<maxContextLength, maxTokens, now, storeVars>>

AnswerRecordFailed ==
    /\ nextUuid + 1 <= MaxTurnUuid
    /\ \E c \in CallIds, response \in Answers, point \in RecordSteps :
          answerRecordFailed(c, response, point)
    /\ UNCHANGED <<splitVars, embedVars, backendVars>>

AnswerCall ==
    /\ \E c \in CallIds, question \in Questions, sessionId \in KnownIds \cup {NoId} :
          answerCall(c, question, sessionId)
    /\ UNCHANGED <<splitVars, embedVars, backendVars>>

AnswerEmbedded ==
    /\ \E c \in CallIds : answerEmbedded(c)
    /\ UNCHANGED <<splitVars, embedVars, backendVars>>

AnswerFailed ==
    /\ \E c \in CallIds : answerFailed(c)
    /\ UNCHANGED <<splitVars, embedVars, backendVars>>

AnswerChatted ==
    /\ nextUuid + 1 <= MaxTurnUuid
    /\ \E c \in CallIds, response \in Answers : answerChatted(c, response)
    /\ UNCHANGED <<splitVars, embedVars, backendVars>>

\* Questions and answers that tell the calls apart
TurnQuestions == {"cat", "dog"}

TurnAnswers == {"yes", "no"}

AskCall ==
    /\ \E c \in CallIds, question \in TurnQuestions, sessionId \in SessionIds :
          answerCall(c, question, sessionId)
    /\ UNCHANGED <<splitVars, embedVars, backendVars>>

TurnAnswered ==
    /\ nextUuid + 1 <= MaxTurnUuid
    /\ \E c \in CallIds, response \in TurnAnswers : answerChatted(c, response)
    /\ UNCHANGED <<splitVars, embedVars, backendVars>>

TurnsNext ==
    \/ AskCall
    \/ TurnAnswered
    \/ AnswerFailed

\* The store as initialize() loads it: empty, or two records from a snapshot
LoadedStore ==
    \/ StoreInit
    \/ /\ documents = <<"cat", "dog">>
       /\ embeddings = <<embeddingOf("cat"), embeddingOf("dog")>>
       /\ metadatas = <<[source |-> "pets.txt", title |-> "pets", chunk_index |-> 0],
                        [source |-> "unknown", title |-> "untitled", chunk_index |-> 1]>>
       /\ ids = <<"doc_0_0", "doc_0_1">>
       /\ storageFile = stringify(snapshotOf(documents, embeddings, metadatas, ids))
       /\ scalls = [c \in CallIds |-> Idle]

ChatNext ==
    \/ AnswerCall
    \/ AnswerEmbedded
    \/ AnswerFailed
    \/ AnswerChatted
    \/ ClearConversation
    \/ DeleteSession

(***************************************************************************)
(* VectorStore: the backend selection                                      *)
(***************************************************************************)
NoCollection == [null |-> TRUE]

\* What client.getCollection / createCollection resolve with
Collection == [name |-> "specialist-agent"]

\* How a rejected getCollection is told apart in the catch of initialize():
\* the message names a connection failure, or it does not, or the error
\* carries no message and error.message.includes throws
GetErrors == {"connect", "other", "nomessage"}

\* The constructor
BackendInit ==
    /\ collection = NoCollection
    /\ useSimpleStore = FALSE
    /\ vpc = "constructed"
    /\ connects = 0
    /\ vcalls = [c \in CallIds |-> Idle]

BackendIdle == BackendInit

backendReady == vpc = "ready"

\* initialize() up to the await of client.getCollection
initializeCall ==
    /\ vpc = "constructed"
    /\ vpc' = "getCollection"
    /\ connects' = connects + 1
    /\ UNCHANGED <<collection, useSimpleStore, vcalls, storeVars>>

\* The fallback: useSimpleStore is set and simpleVectorStore.initialize() runs
fallBack ==
    /\ useSimpleStore' = TRUE
    /\ vpc' = "ready"
    /\ LET loaded == loadFromStorage([documents |-> documents,
                                      embeddings |-> embeddings,
                                      metadatas |-> metadatas, ids |-> ids],
                                     storageFile)
       IN  /\ documents' = loaded.documents
           /\ embeddings' = loaded.embeddings
           /\ metadatas' = loaded.metadatas
           /\ ids' = loaded.ids
    /\ UNCHANGED <<collection, connects, vcalls, storageFile, scalls>>

getCollectionDone ==
    /\ vpc = "getCollection"
    /\ collection' = Collection
    /\ vpc' = "ready"
    /\ UNCHANGED <<useSimpleStore, connects, vcalls, storeVars>>

getCollectionFailed(error) ==
    /\ vpc = "getCollection"
    /\ CASE error = "connect" -> fallBack
         [] error = "other" ->
              /\ vpc' = "createCollection"
              /\ connects' = connects + 1
              /\ UNCHANGED <<collection, useSimpleStore, vcalls, storeVars>>
         [] error = "nomessage" ->
              /\ vpc' = "failed"
              /\ UNCHANGED <<collection, useSimpleStore, connects, vcalls, storeVars>>

createCollectionDone ==
    /\ vpc = "createCollection"
    /\ collection' = Collection
    /\ vpc' = "ready"
    /\ UNCHANGED <<useSimpleStore, connects, vcalls, storeVars>>

createCollectionFailed ==
    /\ vpc = "createCollection"
    /\ fallBack

\* addDocuments or similarity_search of VectorStore on the ChromaDB path, up
\* to its first await: initialize() again when there is no collection, the
\* embedding request otherwise
chromaCall(c, op) ==
    /\ backendReady
    /\ ~useSimpleStore
    /\ vcalls[c] = Idle
    /\ IF collection = NoCollection
       THEN /\ vpc' = "getCollection"
            /\ connects' = connects + 1
            /\ vcalls' = [vcalls EXCEPT ![c] = [op |-> op, pc |-> "initialize"]]
       ELSE /\ vcalls' = [vcalls EXCEPT ![c] = [op |-> op, pc |-> "embedding"]]
            /\ UNCHANGED <<vpc, connects>>
    /\ lastCall' = NoCall
    /\ ret' = Null
    /\ UNCHANGED <<collection, useSimpleStore, storeVars>>

\* The embeddings arrive: collection.add or collection.query is requested
chromaEmbedded(c) ==
    /\ vcalls[c].pc = "embedding"
    /\ vcalls' = [vcalls EXCEPT ![c].pc = "chroma"]
    /\ lastCall' = NoCall
    /\ ret' = Null
    /\ UNCHANGED <<collection, useSimpleStore, vpc, connects, storeVars>>

\* collection.add or collection.query resolves: the call returns
chromaDone(c) ==
    /\ vcalls[c].pc = "chroma"
    /\ vcalls' = [vcalls EXCEPT ![c] = Idle]
    /\ lastCall' = [op |-> vcalls[c].op, outcome |-> "returned", backend |-> "chroma"]
    /\ ret' = Null
    /\ UNCHANGED <<collection, useSimpleStore, vpc, connects, storeVars>>

\* A failed call that forgets the collection
chromaFailedForgets(c) ==
    /\ vcalls[c].pc \in {"embedding", "chroma"}
    /\ vcalls' = [vcalls EXCEPT ![c] = Idle]
    /\ lastCall' = [op |-> vcalls[c].op, outcome |-> "threw", backend |-> "chroma"]
    /\ ret' = Null
    /\ collection' = NoCollection
    /\ UNCHANGED <<useSimpleStore, vpc, connects, storeVars>>

\* The embedding request or the collection request rejects: the call throws
chromaFailed(c) ==
    /\ vcalls[c].pc \in {"embedding", "chroma"}
    /\ vcalls' = [vcalls EXCEPT ![c] = Idle]
    /\ lastCall' = [op |-> vcalls[c].op, outcome |-> "threw", backend |-> "chroma"]
    /\ ret' = Null
    /\ UNCHANGED <<collection, useSimpleStore, vpc, connects, storeVars>>

notACall == lastCall' = NoCall /\ ret' = Null

InitializeCall ==
    /\ initializeCall
    /\ notACall
    /\ UNCHANGED <<splitVars, embedVars, ctxState, chatVars>>

GetCollectionDone ==
    /\ getCollectionDone
    /\ notACall
    /\ UNCHANGED <<splitVars, embedVars, ctxState, chatVars>>

GetCollectionFailed ==
    /\ \E error \in GetErrors : getCollectionFailed(error)
    /\ notACall
    /\ UNCHANGED <<splitVars, embedVars, ctxState, chatVars>>

CreateCollectionDone ==
    /\ createCollectionDone
    /\ notACall
    /\ UNCHANGED <<splitVars, embedVars, ctxState, chatVars>>

CreateCollectionFailed ==
    /\ createCollectionFailed
    /\ notACall
    /\ UNCHANGED <<splitVars, embedVars, ctxState, chatVars>>

ChromaCall ==
    /\ \E c \in CallIds, op \in {"addDocuments", "similarity_search"} : chromaCall(c, op)
    /\ UNCHANGED <<splitVars, embedVars, ctxState, chatVars>>

ChromaEmbedded ==
    /\ \E c \in CallIds : chromaEmbedded(c)
    /\ UNCHANGED <<splitVars, embedVars, ctxState, chatVars>>

ChromaDone ==
    /\ \E c \in CallIds : chromaDone(c)
    /\ UNCHANGED <<splitVars, embedVars, ctxState, chatVars>>

ChromaFailed ==
    /\ \E c \in CallIds : chromaFailed(c)
    /\ UNCHANGED <<splitVars, embedVars, ctxState, chatVars>>

\* addDocuments and similarity_search of VectorStore with useSimpleStore set:
\* the call is handed to the in-process store
SimpleAddCall == backendReady /\ useSimpleStore /\ AddCall

SimpleSearchCall == backendReady /\ useSimpleStore /\ SearchCall

BackendNext ==
    \/ InitializeCall
    \/ GetCollectionDone
    \/ GetCollectionFailed
    \/ CreateCollectionDone
    \/ CreateCollectionFailed
    \/ ChromaCall
    \/ ChromaEmbedded
    \/ ChromaDone
    \/ ChromaFailed
    \/ SimpleAddCall
    \/ SimpleSearchCall
    \/ SearchEmbedded
    \/ AddEmbedded
    \/ EmbedFailed
    \/ WriteDone
    \/ WriteFailed

(***************************************************************************)
(* EmbeddingService                                                        *)
(***************************************************************************)
\* const batchSize = 5
batchSize == 5

EmbedTexts == {"cat", "dog"}

TextLists == UNION {[1..n -> EmbedTexts] : n \in 0..MaxTexts}

\* The entry of generateEmbeddings(texts). Requests are named by the
\* position of their text, from 0; issued and succeeded are history fields.
embedEntry(texts) ==
    [pc |-> "loop", texts |-> texts, i |-> 0, embeddings |-> <<>>,
     inflight |-> {}, issued |-> {}, succeeded |-> {}, failed |-> FALSE]

\* texts.slice(i, i + batchSize), as positions
batchOf(call) ==
    (call.i)..(Min(call.i + batchSize, Len(call.texts)) - 1)

\* The loop test and, when it passes, batch.map(generateEmbedding) up to the
\* await of Promise.all
embedLoop(call) ==
    IF call.i < Len(call.texts)
    THEN [call EXCEPT !.pc = "awaiting",
                      !.inflight = @ \cup batchOf(call),
                      !.issued = @ \cup batchOf(call)]
    ELSE [call EXCEPT !.pc = "returned"]

\* What completing the step reports: the call when it has ended
embedReport(call) ==
    /\ lastCall' = IF call.pc \in {"returned", "threw"}
                   THEN [op |-> "generateEmbeddings", texts |-> call.texts,
                         outcome |-> call.pc]
                   ELSE NoCall
    /\ ret' = IF call.pc = "returned" THEN call.embeddings ELSE Null

generateEmbeddingsCall(texts) ==
    /\ ecall.pc = "idle"
    /\ ecall' = embedLoop(embedEntry(texts))
    /\ embedReport(ecall')

\* A response that is pushed as it arrives
requestDonePushes(j) ==
    /\ ecall.pc \in {"awaiting", "threw"}
    /\ j \in ecall.inflight
    /\ LET arrived == [ecall EXCEPT !.inflight = @ \ {j},
                                    !.succeeded = @ \cup {j},
                                    !.embeddings =
                                        Append(@, embeddingOf(ecall.texts[j + 1]))]
       IN  ecall' = IF ecall.pc = "awaiting" /\ batchOf(ecall) \subseteq arrived.succeeded
                    THEN embedLoop([arrived EXCEPT !.pc = "loop",
                                                   !.i = @ + batchSize])
                    ELSE arrived
    /\ embedReport(ecall')

\* The response to request j arrives: generateEmbedding returns
\* response.embedding. When it is the last of the batch awaited, Promise.all
\* yields the batch's embeddings in the order of the batch, they are pushed
\* and the loop goes on.
requestDone(j) ==
    /\ ecall.pc \in {"awaiting", "threw"}
    /\ j \in ecall.inflight
    /\ LET arrived == [ecall EXCEPT !.inflight = @ \ {j},
                                    !.succeeded = @ \cup {j}]
           batch == batchOf(ecall)
           batchEmbeddings ==
               [k \in 1..Cardinality(batch) |->
                   embeddingOf(ecall.texts[ecall.i + k])]
       IN  ecall' = IF ecall.pc = "awaiting" /\ batch \subseteq arrived.succeeded
                    THEN embedLoop([arrived EXCEPT
                                       !.pc = "loop",
                                       !.embeddings = @ \o batchEmbeddings,
                                       !.i = @ + batchSize])
                    ELSE arrived
    /\ embedReport(ecall')

\* Request j fails: generateEmbedding rethrows, Promise.all rejects at the
\* first rejection, the catch of the loop rethrows. The other requests of
\* the batch stay in flight.
requestFailed(j) ==
    /\ ecall.pc \in {"awaiting", "threw"}
    /\ j \in ecall.inflight
    /\ ecall' = [ecall EXCEPT !.inflight = @ \ {j}, !.failed = TRUE,
                              !.pc = "threw"]
    /\ IF ecall.pc = "awaiting" THEN embedReport(ecall')
       ELSE lastCall' = NoCall /\ ret' = Null

Requests == 0..(MaxTexts - 1)

GenerateEmbeddingsCall ==
    /\ \E texts \in TextLists : generateEmbeddingsCall(texts)
    /\ UNCHANGED <<splitVars, ctxState, storeVars, chatVars, backendVars>>

RequestDone ==
    /\ \E j \in Requests : requestDone(j)
    /\ UNCHANGED <<splitVars, ctxState, storeVars, chatVars, backendVars>>

RequestFailed ==
    /\ \E j \in Requests : requestFailed(j)
    /\ UNCHANGED <<splitVars, ctxState, storeVars, chatVars, backendVars>>

EmbedNext ==
    \/ GenerateEmbeddingsCall
    \/ RequestDone
    \/ RequestFailed

(***************************************************************************)
(* Specifications                                                          *)
(***************************************************************************)
SplitNext == SplitLoop \/ SplitReturn

InitSplit == SplitInit /\ CtxIdle /\ StoreInit /\ ChatInit /\ BackendIdle /\ EmbedIdle

SpecSplit == InitSplit /\ [][SplitNext]_vars

\* parseInt(process.env.CONTEXT_WINDOW_LENGTH) || 10 and
\* parseInt(process.env.CONTEXT_MAX_TOKENS) || 4000
DefaultContextLength == 10

DefaultMaxTokens == 4000

RECURSIVE Repeat(_, _)
Repeat(str, n) == IF n = 0 THEN "" ELSE str \o Repeat(str, n - 1)

\* Messages with a short content, one of 100 and one of 101 characters
SummaryMessages ==
    {[role |-> "user", content |-> "hi"],
     [role |-> "assistant", content |-> Repeat("a", 100)],
     [role |-> "user", content |-> Repeat("b", 101)]}

SummaryHistories == UNION {[1..n -> SummaryMessages] : n \in 0..MaxMessages}

\* The service with its default tunables, without a session or with the
\* session s1 after some addMessage calls
SummaryInit ==
    /\ now = 0
    /\ maxContextLength = DefaultContextLength
    /\ maxTokens = DefaultMaxTokens
    /\ \/ conversations = <<>> /\ received = <<>> /\ nextUuid = 1
       \/ \E history \in SummaryHistories :
             /\ conversations =
                   ("s1" :> [messages |->
                               [i \in 1..Len(history) |->
                                   newMessage(ToString(i), history[i].role,
                                              history[i].content, NoMetadata)],
                             createdAt |-> 0, lastAccessed |-> 0])
             /\ received = ("s1" :> Min(Len(history), 3))
             /\ nextUuid = Len(history) + 1
    /\ lastCall = NoCall
    /\ ret = Null

InitSummary ==
    SummaryInit /\ SplitIdle /\ StoreInit /\ ChatInit /\ BackendIdle /\ EmbedIdle

\* getConversationSummary on sessions of up to MaxMessages messages
SpecSummary == InitSummary /\ [][GetConversationSummary]_vars

\* One generateEmbeddings call and its requests
InitEmbed ==
    EmbedIdle /\ SplitIdle /\ CtxIdle /\ StoreInit /\ ChatInit /\ BackendIdle

SpecEmbed == InitEmbed /\ [][EmbedNext]_vars

\* splitText on the worked example
InitExample ==
    SplitExampleInit /\ CtxIdle /\ StoreInit /\ ChatInit /\ BackendIdle /\ EmbedIdle

SpecExample == InitExample /\ [][SplitNext]_vars

\* splitDocuments on lists of up to MaxDocs documents
InitDocs ==
    SplitDocsInit /\ CtxIdle /\ StoreInit /\ ChatInit /\ BackendIdle /\ EmbedIdle

SpecDocs == InitDocs /\ [][SplitDocuments]_vars

\* The service with its two tunables as constructed
InitCtx == CtxInit /\ SplitIdle /\ StoreInit /\ ChatInit /\ BackendIdle /\ EmbedIdle

SpecCtx == InitCtx /\ [][CtxNext]_vars

\* The service with the largest tunables, so that nothing is trimmed
InitClock == InitCtx /\ maxContextLength = MaxCtx /\ maxTokens = MaxTokens

ClockNext ==
    \/ CreateSession
    \/ AddUserMessage
    \/ GetMessages
    \/ ClearConversation
    \/ CleanupOldConversations
    \/ Tick

\* Sessions over time: created, written, read, cleared and swept
SpecClock == InitClock /\ [][ClockNext]_vars

SessionsNext ==
    \/ CreateSession
    \/ AddUserMessage
    \/ GetMessages
    \/ ClearConversation
    \/ DeleteSession
    \/ Tick

\* Several sessions side by side over time, each created, written, read,
\* cleared and deleted by its id
SpecSessions == InitClock /\ [][SessionsNext]_vars

ReadsNext ==
    \/ CreateSession
    \/ AddUserMessage
    \/ DeleteSession
    \/ GetContext
    \/ GetRecentContext
    \/ GetConversationSummary
    \/ GetConversationStats

\* Sessions that come and go, and the four read operations
SpecReads == InitCtx /\ [][ReadsNext]_vars

\* The service with the tunables changed at run time

RecentNext ==
    \/ AddMessage
    \/ ClearConversation
    \/ GetRecentContext

\* Sessions that are written to and read with getRecentContext
SpecRecent == InitCtx /\ [][RecentNext]_vars

SpecCfg == InitCtx /\ [][CtxNext \/ UpdateContextConfig]_vars

InitStore == StoreInit /\ CtxIdle /\ SplitIdle /\ ChatInit /\ BackendIdle /\ EmbedIdle

\* The in-process backend under concurrent requests
SpecStore == InitStore /\ [][StoreNext]_vars

\* Embeddings as other embedding models (EMBEDDING_MODEL) produce them
OtherVectors == {<<1, 0, 0>>, <<2>>}

StoredVectors == {embeddingOf("cat"), embeddingOf("dog")} \cup OtherVectors

\* The store started from a snapshot some of whose embeddings were written
\* under another embedding model
MixedStore ==
    /\ \E n \in 1..MaxStore :
          /\ documents \in [1..n -> {"cat", "dog"}]
          /\ embeddings \in [1..n -> StoredVectors]
          /\ metadatas = [i \in 1..n |->
                [source |-> "pets.txt", title |-> "pets", chunk_index |-> i - 1]]
          /\ ids = [i \in 1..n |-> "doc_0_" \o ToString(i - 1)]
    /\ storageFile = stringify(snapshotOf(documents, embeddings, metadatas, ids))
    /\ scalls = [c \in CallIds |-> Idle]

InitMixed ==
    MixedStore /\ CtxIdle /\ SplitIdle /\ ChatInit /\ BackendIdle /\ EmbedIdle

MixedNext ==
    \/ SearchCall
    \/ SearchEmbedded
    \/ EmbedFailed

\* Searches of a store that holds embeddings of several dimensionalities
SpecMixed == InitMixed /\ [][MixedNext]_vars

TornNext ==
    \/ SearchCall
    \/ SearchEmbedded
    \/ AddCall
    \/ AddEmbedded
    \/ ClearCall
    \/ WriteDone

\* Searches interleaved with writes to the store, none of which fails
SpecTorn == InitStore /\ [][TornNext]_vars

\* addDocuments and clear requests while the clock runs
IdsNext ==
    \/ AddCall
    \/ AddEmbedded
    \/ EmbedFailed
    \/ ClearCall
    \/ WriteDone
    \/ WriteFailed
    \/ Tick

SpecIds == InitStore /\ [][IdsNext]_vars

\* What can be at storagePath when the process starts
Files ==
    {NoFile, Unreadable, NotJson, JsonNull, jsonObject(<<>>),
     stringify(snapshotOf(<<"cat">>, <<embeddingOf("cat")>>,
                          <<[source |-> "pets.txt", title |-> "pets", chunk_index |-> 0]>>,
                          <<"doc_0_0">>))}

\* The store once the constructor and initialize() have run
StartedStore ==
    /\ storageFile \in Files
    /\ LET loaded == loadFromStorage(EmptyStore, storageFile)
       IN  /\ documents = loaded.documents
           /\ embeddings = loaded.embeddings
           /\ metadatas = loaded.metadatas
           /\ ids = loaded.ids
    /\ scalls = [c \in CallIds |-> Idle]

\* Snapshots that lack a field: the one of Files without its metadatas, and
\* without its collectionName
withoutField(file, key) ==
    jsonObject([k \in DOMAIN file.fields \ {key} |-> file.fields[k]])

PartialFiles ==
    {withoutField(file, key) :
        file \in {f \in Files : f \notin {NoFile, Unreadable, NotJson, JsonNull,
                                          jsonObject(<<>>)}},
        key \in {"metadatas", "collectionName"}}

\* The store once the constructor and initialize() have run, the snapshot
\* being whole or partial
StartedAnyStore ==
    /\ storageFile \in Files \cup PartialFiles
    /\ LET loaded == loadFromStorage(EmptyStore, storageFile)
       IN  /\ documents = loaded.documents
           /\ embeddings = loaded.embeddings
           /\ metadatas = loaded.metadatas
           /\ ids = loaded.ids
    /\ scalls = [c \in CallIds |-> Idle]

InitPartial ==
    StartedAnyStore /\ CtxIdle /\ SplitIdle /\ ChatInit /\ BackendIdle /\ EmbedIdle

InitPersist == StartedStore /\ CtxIdle /\ SplitIdle /\ ChatInit /\ BackendIdle /\ EmbedIdle

PersistNext ==
    \/ AddCall
    \/ AddEmbedded
    \/ EmbedFailed
    \/ ClearCall
    \/ WriteDone
    \/ WriteFailed
    \/ Restart

\* Ingestion and clearing, with restarts
SpecPersist == InitPersist /\ [][PersistNext]_vars

\* The store over restarts, started from any snapshot
SpecPartial == InitPartial /\ [][PersistNext]_vars

WritesNext ==
    \/ ConcurrentAddCall
    \/ AddEmbedded
    \/ EmbedFailed
    \/ ConcurrentClearCall
    \/ WriteDone

\* Ingestion and clearing from concurrent requests, every file write
\* succeeding
SpecWrites == InitStore /\ [][WritesNext]_vars

InitBackend == BackendInit /\ StoreInit /\ CtxIdle /\ SplitIdle /\ ChatInit /\ EmbedIdle

\* The start of the process and the requests served after it
SpecBackend == InitBackend /\ [][BackendNext]_vars

InitChat == CtxInit /\ SplitIdle /\ LoadedStore /\ ChatInit /\ BackendIdle /\ EmbedIdle

\* Concurrent answerQuestion requests with the conversation routes
SpecChat == InitChat /\ [][ChatNext]_vars

\* Concurrent answerQuestion requests on one session, with questions and
\* answers that differ
SpecTurns == InitCtx /\ [][TurnsNext]_vars

\* SpecChat, where the storing of a turn can fail
SpecChatFaults == InitChat /\ [][ChatNext \/ AnswerRecordFailed]_vars

(***************************************************************************)
(* Claims about ConversationContextService                                 *)
(***************************************************************************)
\* The session the last call named, and its messages now
CalledSession == lastCall.sessionId

CalledMessages == messagesOf(conversations, CalledSession)

AfterAddMessage == lastCall.op = "addMessage"

\* The estimated token total as the specification states it: the sum over
\* the messages of the least k with 4 * k >= length of the content
CeilQuarter(n) == CHOOSE k \in 0..n : 4 * k >= n /\ 4 * (k - 1) < n

RECURSIVE TokenTotal(_)
TokenTotal(messages) ==
    IF messages = <<>> THEN 0
    ELSE CeilQuarter(Len(messages[1].content)) + TokenTotal(Tail(messages))

IsSuffix(s, t) ==
    /\ Len(s) <= Len(t)
    /\ \A i \in 1..Len(s) : s[i] = t[Len(t) - Len(s) + i]

(* C2: with maxContextLength and maxTokens fixed, every session holds at   *)
(* most maxContextLength messages after every addMessage (and so in every  *)
(* state reached by the service's operations).                             *)
C2_AtMostMaxContextLength ==
    \A id \in DOMAIN conversations :
        Len(conversations[id].messages) <= maxContextLength

\* An addMessage onto a full window: the count cap dropped the oldest message
C2_Witness ==
    /\ AfterAddMessage
    /\ Len(lastCall.before) = maxContextLength
    /\ Len(CalledMessages) = maxContextLength

(* C3: a session's estimated token total is at most maxTokens unless the   *)
(* session holds fewer than 3 messages.                                    *)
C3_TokensWithinBudget ==
    \A id \in DOMAIN conversations :
        Len(conversations[id].messages) >= 3 =>
            TokenTotal(conversations[id].messages) <= maxTokens

\* An addMessage that leaves 3 messages, one of them of more than one token
C3_Witness ==
    /\ AfterAddMessage
    /\ Len(CalledMessages) >= 3
    /\ \E i \in 1..Len(CalledMessages) : Len(CalledMessages[i].content) > 4

(* C4: after addMessage(s, m) the list of s is a suffix of the list before *)
(* the call followed by m.                                                 *)
C4_TrimsOldestOnly ==
    AfterAddMessage => IsSuffix(CalledMessages, Append(lastCall.before, ret))

\* An addMessage after which at least one old message is gone
C4_Witness ==
    /\ AfterAddMessage
    /\ Len(CalledMessages) >= 2
    /\ Len(CalledMessages) <= Len(lastCall.before)

(* C5 as stated: once a session has received at least 2 messages, every    *)
(* later addMessage leaves at least 2 messages in it.                      *)
C5_FloorOfTwo ==
    (AfterAddMessage /\ received[CalledSession] >= 3) => Len(CalledMessages) >= 2

(* C5, amended: when maxContextLength >= 2, a session that has received at *)
(* least 2 messages since it was created or last cleared holds at least 2, *)
(* and after an addMessage its last two messages are the last message of   *)
(* the list before the call and the message just added.                    *)
C5_FloorOfTwoInWindow ==
    maxContextLength >= 2 =>
        /\ \A id \in DOMAIN conversations :
              received[id] >= 2 => Len(conversations[id].messages) >= 2
        /\ (AfterAddMessage /\ received[CalledSession] >= 2) =>
              LET n == Len(CalledMessages)
              IN  /\ CalledMessages[n] = ret
                  /\ CalledMessages[n - 1] = lastCall.before[Len(lastCall.before)]

\* The third message onto a session leaves exactly 2 that are still over the
\* token budget: the floor stopped the token loop
C5_Witness ==
    /\ maxContextLength >= 3
    /\ AfterAddMessage
    /\ received[CalledSession] >= 3
    /\ Len(CalledMessages) = 2
    /\ TokenTotal(CalledMessages) > maxTokens

(* C6: getContext(sessionId, false) on a session holding n messages        *)
(* returns its min(n, maxContextLength) most recent messages in order.     *)
C6_WindowOfMostRecent ==
    (/\ lastCall.op = "getContext"
     /\ ~lastCall.includeSystemMessage
     /\ CalledSession \in DOMAIN conversations) =>
        LET n == Len(CalledMessages)
            k == Min(n, maxContextLength)
        IN  /\ Len(ret) = k
            /\ \A i \in 1..k : ret[i] = CalledMessages[n - k + i]

\* A getContext on a session that holds more than the window
C6_Witness ==
    /\ lastCall.op = "getContext"
    /\ ~lastCall.includeSystemMessage
    /\ CalledSession \in DOMAIN conversations
    /\ Len(CalledMessages) > maxContextLength

(* C7: addMessage on a session id that does not exist creates the session  *)
(* and appends the message: getConversationStats then reports              *)
(* messageCount = 1.                                                       *)
C7_AutoCreate ==
    (AfterAddMessage /\ ~lastCall.existed) =>
        /\ CalledSession \in DOMAIN conversations
        /\ statsOf(conversations, CalledSession) # Null
        /\ statsOf(conversations, CalledSession).messageCount = 1
        /\ CalledMessages = <<ret>>

\* An addMessage on an unknown id whose one message is over the token budget
C7_Witness ==
    /\ AfterAddMessage
    /\ ~lastCall.existed
    /\ TokenTotal(<<ret>>) > maxTokens

(***************************************************************************)
(* C8: a successful answerQuestion(question, sessionId) with a session id  *)
(* that did not exist returns the answer and leaves a session with that id *)
(* holding exactly 2 messages: the user question followed by the assistant *)
(* answer.                                                                 *)
(***************************************************************************)
AfterAnswer ==
    /\ lastCall.op = "answerQuestion"
    /\ lastCall.outcome = "returned"
    /\ lastCall.sessionId # NoId

TurnStored ==
    /\ ret.answer \in Answers
    /\ lastCall.sessionId \in DOMAIN conversations
    /\ LET messages == conversations[lastCall.sessionId].messages
       IN  /\ Len(messages) = 2
           /\ messages[1].role = "user"
           /\ messages[1].content = lastCall.question
           /\ messages[2].role = "assistant"
           /\ messages[2].content = ret.answer

\* As stated: for every window size, whatever happened during the call
C8_TurnStored == (AfterAnswer /\ ~lastCall.existedAtCall) => TurnStored

\* C8, for a window of at least 2 messages and a session that no other
\* request gave messages to while the call was in progress
C8_TurnStoredInWindow ==
    (AfterAnswer /\ ~lastCall.existedAtCall /\ lastCall.before = <<>>
        /\ maxContextLength >= 2) => TurnStored

\* An answer over retrieved documents, for an id that was unknown until the
\* turn was stored
C8_Witness ==
    /\ AfterAnswer
    /\ ~lastCall.existedAtCall
    /\ lastCall.before = <<>>
    /\ maxContextLength >= 2
    /\ Len(ret.sources) = 2
    /\ received[lastCall.sessionId] = 2

(***************************************************************************)
(* C9: when answerQuestion is called with a session id whose session       *)
(* already holds messages, the prompt passed to the chat model contains    *)
(* that session's conversation summary in addition to the document-context *)
(* block and the question.                                                 *)
(***************************************************************************)
Contains(str, sub) ==
    \E i \in 1..(Len(str) - Len(sub) + 1) : SubSeq(str, i, i + Len(sub) - 1) = sub

\* Call c sends its chat request in this step
ChatRequested(c) == qcalls[c].pc # "chatting" /\ qcalls'[c].pc = "chatting"

C9_PromptHasSummary ==
    [][\A c \in CallIds :
         (/\ ChatRequested(c)
          /\ qcalls'[c].sessionId # NoId
          /\ messagesOf(conversations, qcalls'[c].sessionId) # <<>>)
         => /\ Contains(qcalls'[c].prompt,
                        getConversationSummary(conversations, qcalls'[c].sessionId))
            /\ Contains(qcalls'[c].prompt,
                        documentContextOf(qcalls'[c].relevantDocs))
            /\ Contains(qcalls'[c].prompt, qcalls'[c].question)]_vars

(***************************************************************************)
(* C10: on the in-process backend, similarity_search(query, k) with k >= 0 *)
(* returns exactly min(k, number of stored records) results sorted by      *)
(* non-increasing similarity, each stored record appearing at most once    *)
(* (all of them exactly once when k exceeds the store size); on an empty   *)
(* store it returns the empty sequence without error and without           *)
(* requesting an embedding.                                                *)
(***************************************************************************)
AfterSearch ==
    /\ lastCall.op = "similarity_search"
    /\ lastCall.outcome = "returned"

\* How many times x occurs in seq
Count(seq, x) == Cardinality({i \in 1..Len(seq) : seq[i] = x})

\* The stored records as results for the query of the search that returned
StoredAsResults ==
    [i \in 1..Len(documents) |->
        LET sim == cosineSimilarity(embeddingOf(lastCall.query), embeddings[i])
        IN  [content |-> documents[i], metadata |-> metadatas[i],
             similarity |-> sim, distance |-> Unit - sim]]

SearchContract ==
    AfterSearch =>
        /\ Len(ret) = Min(lastCall.k, Len(documents))
        /\ \A i, j \in 1..Len(ret) : i < j => ret[i].similarity >= ret[j].similarity
        /\ \A i \in 1..Len(ret) : Count(ret, ret[i]) <= Count(StoredAsResults, ret[i])
        /\ lastCall.k >= Len(documents) =>
               \A i \in 1..Len(documents) :
                   Count(ret, StoredAsResults[i])
                       = Count(StoredAsResults, StoredAsResults[i])
        /\ ~lastCall.requested => (Len(documents) = 0 /\ ret = <<>>)

\* A search called on an empty store returns in the same step
EmptyStoreSearch ==
    (SearchCall /\ Len(documents) = 0) =>
        /\ lastCall'.op = "similarity_search"
        /\ lastCall'.outcome = "returned"
        /\ ~lastCall'.requested
        /\ ret' = <<>>

C10_SearchContract == []SearchContract /\ [][EmptyStoreSearch]_vars

\* A search for fewer results than the store holds, whose best match is not
\* the first stored record
C10_Witness ==
    /\ AfterSearch
    /\ lastCall.requested
    /\ Len(documents) = 2
    /\ lastCall.k = 1
    /\ ret[1].content = documents[2]
    /\ ret[1].similarity > StoredAsResults[1].similarity

(***************************************************************************)
(* C11: after any sequence of addDocuments calls on the in-process backend *)
(* (including several calls made at the same clock reading), all record    *)
(* ids in the store are pairwise distinct.                                 *)
(***************************************************************************)
C11_IdsDistinct == \A i, j \in 1..Len(ids) : i # j => ids[i] # ids[j]

(***************************************************************************)
(* C12: persistence round-trip: for any in-process store state,            *)
(* saveToStorage followed by loadFromStorage into a fresh store reproduces *)
(* the same documents, embeddings, metadatas and ids in the same order, so *)
(* similarity_search gives identical results for the same query before and *)
(* after.                                                                  *)
(***************************************************************************)
AfterInitialize == lastCall.op = "initialize"

\* The process restarted from the file saveToStorage writes for the memory
\* it had
RestartedFromOwnSnapshot ==
    /\ AfterInitialize
    /\ lastCall.file =
          stringify(snapshotOf(lastCall.before.documents, lastCall.before.embeddings,
                               lastCall.before.metadatas, lastCall.before.ids))

C12_RoundTrip ==
    RestartedFromOwnSnapshot =>
        /\ documents = lastCall.before.documents
        /\ embeddings = lastCall.before.embeddings
        /\ metadatas = lastCall.before.metadatas
        /\ ids = lastCall.before.ids
        /\ \A query \in Queries, k \in Ks :
              searchResults(embeddingOf(query), k) = lastCall.searchBefore[query][k]

\* A restart from the snapshot of a store of two records, one of them with
\* default metadata
C12_Witness ==
    /\ RestartedFromOwnSnapshot
    /\ Len(lastCall.before.documents) = 2
    /\ \E i \in 1..2 : lastCall.before.metadatas[i].source = "unknown"

(***************************************************************************)
(* C13: initialize() of the in-process backend never fails: when the       *)
(* persisted snapshot is missing, unreadable or not valid JSON, the store  *)
(* is left empty (zero records) and ready to accept addDocuments and       *)
(* similarity_search.                                                      *)
(***************************************************************************)
C13_StartsEmpty ==
    AfterInitialize =>
        /\ lastCall.outcome = "returned"
        /\ lastCall.file \in {NoFile, Unreadable, NotJson} =>
              /\ documents = <<>>
              /\ embeddings = <<>>
              /\ metadatas = <<>>
              /\ ids = <<>>
              /\ ENABLED AddCall
              /\ ENABLED SearchCall

\* A process that held a record in memory only restarts over a corrupt file
C13_Witness ==
    /\ AfterInitialize
    /\ lastCall.file = NotJson
    /\ lastCall.before.documents # <<>>

(***************************************************************************)
(* C14: if embedding generation fails for any chunk of an addDocuments     *)
(* call, the call fails and the store is unchanged: no record of that call *)
(* (not even those whose embedding succeeded) is added to memory and the   *)
(* snapshot is not rewritten.                                              *)
(***************************************************************************)
\* This step ends an addDocuments call that was waiting for its embeddings,
\* without its records having been pushed
AddEndsAtEmbedding(c) ==
    /\ scalls[c].op = "addDocuments"
    /\ scalls[c].pc = "embedding"
    /\ scalls'[c] = Idle

C14_FailedAddChangesNothing ==
    [][\A c \in CallIds :
         AddEndsAtEmbedding(c) =>
            /\ lastCall'.op = "addDocuments"
            /\ lastCall'.outcome = "threw"
            /\ \A d \in CallIds : d # c => scalls'[d] = scalls[d]
            /\ UNCHANGED <<documents, embeddings, metadatas, ids, storageFile>>]_vars

\* An addDocuments of two chunks has failed on its second chunk
C14_Witness ==
    /\ lastCall.op = "addDocuments"
    /\ lastCall.outcome = "threw"
    /\ Len(lastCall.docs) = 2
    /\ lastCall.failed = 2

(***************************************************************************)
(* C15: a failure to write the snapshot does not fail addDocuments or      *)
(* clear on the in-process backend: the call completes normally, the       *)
(* in-memory store holds the new state, and later similarity_search calls  *)
(* see it.                                                                 *)
(***************************************************************************)
AfterWriteFailure ==
    /\ lastCall.op \in {"addDocuments", "clear"}
    /\ "written" \in DOMAIN lastCall
    /\ ~lastCall.written

\* What a search for every record returns on the arrays of a JSON snapshot
searchOver(data, query) ==
    LET store == loadFromStorage(EmptyStore, data)
        scored == [i \in 1..Len(store.embeddings) |->
                     LET sim == cosineSimilarity(embeddingOf(query), store.embeddings[i])
                     IN  [content |-> store.documents[i],
                          metadata |-> store.metadatas[i],
                          distance |-> Unit - sim, similarity |-> sim]]
    IN  sortBySimilarity(scored)

\* With one addDocuments or clear in flight at a time, memory is the state
\* the call built
C15_WriteFailureTolerated ==
    AfterWriteFailure =>
          /\ lastCall.outcome = "returned"
          /\ stringify(snapshotOf(documents, embeddings, metadatas, ids))
                = lastCall.data
          /\ \A query \in Queries :
                searchResults(embeddingOf(query), Len(documents))
                    = searchOver(lastCall.data, query)

\* An addDocuments whose write failed while the file held an older snapshot
C15_Witness ==
    /\ AfterWriteFailure
    /\ lastCall.op = "addDocuments"
    /\ Len(documents) = 2
    /\ storageFile # NoFile
    /\ storageFile # lastCall.data

(***************************************************************************)
(* C16: write-through persistence: when every addDocuments and clear call  *)
(* issued so far on the in-process backend has completed (with no write    *)
(* error), the durable snapshot equals the in-memory state, also when      *)
(* several of those calls were in flight at the same time and their file   *)
(* writes completed in any order.                                          *)
(***************************************************************************)
C16_WriteThrough ==
    (\A c \in CallIds : scalls[c] = Idle) =>
        loadFromStorage(EmptyStore, storageFile)
            = [documents |-> documents, embeddings |-> embeddings,
               metadatas |-> metadatas, ids |-> ids]

(***************************************************************************)
(* C17: backend selection is made once: after VectorStore.initialize() has *)
(* returned, exactly one backend is selected (a ChromaDB collection, or    *)
(* the in-process store), and no later addDocuments or similarity_search   *)
(* call changes the selection or re-attempts the connection, even when a   *)
(* call on the selected backend fails.                                     *)
(***************************************************************************)
ExactlyOneBackend == (collection # NoCollection) # useSimpleStore

SelectionKept ==
    backendReady =>
        /\ backendReady'
        /\ UNCHANGED <<collection, useSimpleStore, connects>>

C17_SelectedOnce ==
    /\ [](backendReady => ExactlyOneBackend)
    /\ [][SelectionKept]_vars

\* A call has failed on a collection that initialize() had to create
C17_Witness ==
    /\ backendReady
    /\ connects = 2
    /\ collection = Collection
    /\ lastCall.op \in {"addDocuments", "similarity_search"}
    /\ lastCall.outcome = "threw"

(***************************************************************************)
(* C18: if the embedding call or the chat call fails during                *)
(* answerQuestion, the call fails and the conversation state is unchanged: *)
(* no message is appended to any session and no session is created for the *)
(* supplied session id.                                                    *)
(***************************************************************************)
\* This step ends call c on a failed embedding or chat request
UpstreamFailure(c) ==
    /\ qcalls[c].pc \in {"embedding", "chatting"}
    /\ qcalls'[c] = Idle
    /\ lastCall'.op = "answerQuestion"
    /\ "failure" \in DOMAIN lastCall'

C18_FailureLeavesSessions ==
    [][\A c \in CallIds :
         UpstreamFailure(c) =>
            /\ lastCall'.outcome = "threw"
            /\ ret' = Null
            /\ conversations' = conversations
            /\ received' = received]_vars

\* The chat request of a call for an unknown session has failed
C18_Witness ==
    /\ lastCall.op = "answerQuestion"
    /\ lastCall.outcome = "threw"
    /\ lastCall.failure = "chatting"
    /\ lastCall.sessionId # NoId
    /\ lastCall.sessionId \notin DOMAIN conversations

(***************************************************************************)
(* C19: if recording the turn into the session fails after the chat model  *)
(* has answered, answerQuestion still returns the answer, the sources and  *)
(* the session id; the failure is not propagated to the caller.            *)
(***************************************************************************)
AfterRecordFailure ==
    /\ lastCall.op = "answerQuestion"
    /\ "recordFailedAt" \in DOMAIN lastCall

C19_AnswerReturned ==
    AfterRecordFailure =>
        /\ lastCall.outcome = "returned"
        /\ ret # Null
        /\ ret.answer = lastCall.response
        /\ ret.sessionId = lastCall.sessionId
        /\ Len(ret.sources) = Len(lastCall.relevantDocs)
        /\ \A i \in 1..Len(ret.sources) :
              /\ ret.sources[i].source = lastCall.relevantDocs[i].metadata.source
              /\ ret.sources[i].title = lastCall.relevantDocs[i].metadata.title
              /\ ret.sources[i].similarity = lastCall.relevantDocs[i].similarity

\* The answer's addMessage threw, for an answer over retrieved documents
C19_Witness ==
    /\ AfterRecordFailure
    /\ lastCall.recordFailedAt = "assistant"
    /\ Len(lastCall.relevantDocs) = 2
    /\ Len(messagesOf(conversations, lastCall.sessionId)) = 1

(***************************************************************************)
(* C20: getRecentContext(sessionId, excludeLast) returns the last          *)
(* maxContextLength messages of the session's list with its final          *)
(* excludeLast messages removed, for every excludeLast >= 0; in particular *)
(* getRecentContext(sessionId, 0) returns the same messages as             *)
(* getContext(sessionId, false).                                           *)
(***************************************************************************)
\* The last n elements of seq
LastOf(seq, n) == SubSeq(seq, Max(1, Len(seq) - n + 1), Len(seq))

C20_RecentContext ==
    lastCall.op = "getRecentContext" =>
        LET messages == messagesOf(conversations, lastCall.sessionId)
            kept == SubSeq(messages, 1, Len(messages) - lastCall.excludeLast)
        IN  /\ ret = LastOf(kept, maxContextLength)
            /\ lastCall.excludeLast = 0 => ret = contextOf(lastCall.sessionId, FALSE)

(***************************************************************************)
(* C21: getContext(sessionId, true) returns exactly one synthesized        *)
(* system-role message followed by the window of stored messages, for      *)
(* every session state: an unknown session, a known session with no        *)
(* messages, and a known session with messages.                            *)
(***************************************************************************)
C21_SystemMessageFirst ==
    (lastCall.op = "getContext" /\ lastCall.includeSystemMessage) =>
        /\ Len(ret) >= 1
        /\ ret[1].role = "system"
        /\ ret[1].content = buildSystemPrompt
        /\ Tail(ret) = LastOf(messagesOf(conversations, lastCall.sessionId),
                              maxContextLength)

(***************************************************************************)
(* C22: updateContextConfig(maxLength, maxTokens) changes only the two     *)
(* tunables: it leaves every session's message list unchanged, getConfig   *)
(* afterwards reports the new values, and a session is re-trimmed to the   *)
(* new limits only by its next addMessage.                                 *)
(***************************************************************************)
AfterUpdateConfig == lastCall.op = "updateContextConfig"

\* After the update the sessions are the ones before it and getConfig
\* reports the arguments; after an addMessage the session it named is within
\* the limits in force
ConfigFrame ==
    /\ AfterUpdateConfig =>
          /\ conversations = lastCall.before
          /\ getConfig.maxContextLength = lastCall.maxLength
          /\ getConfig.maxTokens = lastCall.maxTokens
          /\ getConfig.activeConversations = Cardinality(DOMAIN lastCall.before)
    /\ AfterAddMessage =>
          /\ Len(CalledMessages) <= maxContextLength
          /\ Len(CalledMessages) >= 3 => TokenTotal(CalledMessages) <= maxTokens

\* A step that shortens a session's list is an addMessage to it, or empties
\* it (clearConversation, createSession with its id)
ShortenedOnlyByAppend ==
    \A id \in DOMAIN conversations \cap DOMAIN conversations' :
        Len(conversations'[id].messages) < Len(conversations[id].messages) =>
            /\ lastCall'.op \in {"addMessage", "clearConversation", "createSession"}
            /\ lastCall'.sessionId = id
            /\ lastCall'.op # "addMessage" => conversations'[id].messages = <<>>

C22_ConfigOnly == []ConfigFrame /\ [][ShortenedOnlyByAppend]_vars

\* The window was made smaller than a session's list
C22_Witness ==
    /\ AfterUpdateConfig
    /\ \E id \in DOMAIN conversations :
          Len(conversations[id].messages) > maxContextLength

\* C23: clearConversation on an existing session leaves the session in
\* existence with no messages and the createdAt it had; on an unknown id it
\* changes nothing and creates no session.
ClearStep ==
    lastCall'.op = "clearConversation" =>
        LET id == lastCall'.sessionId
        IN  IF id \in DOMAIN conversations
            THEN /\ id \in DOMAIN conversations'
                 /\ conversations'[id].messages = <<>>
                 /\ conversations'[id].createdAt = conversations[id].createdAt
            ELSE /\ conversations' = conversations
                 /\ id \notin DOMAIN conversations'

C23_ClearKeepsSession == [][ClearStep]_vars

\* An existing session was cleared some time after its creation
C23_Witness ==
    /\ lastCall.op = "clearConversation"
    /\ lastCall.existed
    /\ conversations[lastCall.sessionId].createdAt < now

\* C24: deleteSession removes the session (its stats are null, its context is
\* empty), raises nothing, and on an id that is not there, among them one just
\* deleted, leaves everything as it is.
DeleteStep ==
    lastCall'.op = "deleteSession" =>
        LET id == lastCall'.sessionId
        IN  /\ id \notin DOMAIN conversations'
            /\ statsOf(conversations', id) = Null
            /\ \A sessionId \in KnownIds :
                   sessionId = id => contextOf(sessionId, FALSE)' = <<>>
            /\ ret' = Null
            /\ \A other \in DOMAIN conversations \ {id} :
                   /\ other \in DOMAIN conversations'
                   /\ conversations'[other] = conversations[other]
            /\ id \notin DOMAIN conversations => conversations' = conversations

C24_DeleteRemoves == [][DeleteStep]_vars

\* A session that existed was deleted while another one stayed
C24_Witness ==
    /\ lastCall.op = "deleteSession"
    /\ lastCall.existed
    /\ DOMAIN conversations # {}

\* C25: cleanupOldConversations(maxAgeHours) removes exactly the sessions
\* whose lastAccessed is earlier than now minus maxAgeHours and keeps the
\* others as they are; addMessage and getContext set lastAccessed to now, so
\* a session they touched within the period stays.
TouchedIsFresh ==
    (/\ lastCall.op \in {"addMessage", "getContext"}
     /\ lastCall.sessionId \in DOMAIN conversations)
        => conversations[lastCall.sessionId].lastAccessed = now

SweepStep ==
    lastCall'.op = "cleanupOldConversations" =>
        LET keep == {id \in DOMAIN conversations :
                       conversations[id].lastAccessed >= now - lastCall'.maxAgeHours}
        IN  conversations' = [id \in keep |-> conversations[id]]

C25_SweepsOld == []TouchedIsFresh /\ [][SweepStep]_vars

\* A sweep removed a session and kept one that was touched after its creation
C25_Witness ==
    /\ lastCall.op = "cleanupOldConversations"
    /\ lastCall.removed # {}
    /\ \E id \in DOMAIN conversations :
          conversations[id].createdAt < conversations[id].lastAccessed

\* C26: getContext, getRecentContext, getConversationSummary and
\* getConversationStats on an unknown session id return their empty or
\* default result and leave the sessions as they are.
ReadOps ==
    {"getContext", "getRecentContext", "getConversationSummary",
     "getConversationStats"}

ReadUnknownStep ==
    (/\ lastCall'.op \in ReadOps
     /\ lastCall'.sessionId \notin DOMAIN conversations)
        => /\ conversations' = conversations
           /\ CASE lastCall'.op = "getContext" ->
                       ret' = IF lastCall'.includeSystemMessage
                              THEN <<systemMessage>> ELSE <<>>
                [] lastCall'.op = "getRecentContext" -> ret' = <<>>
                [] lastCall'.op = "getConversationSummary" -> ret' = ""
                [] OTHER -> ret' = Null

C26_ReadsCreateNothing == [][ReadUnknownStep]_vars

\* A summary was asked of an id that is not there while a session exists
C26_Witness ==
    /\ lastCall.op = "getConversationSummary"
    /\ lastCall.sessionId \notin DOMAIN conversations
    /\ ret = ""
    /\ DOMAIN conversations # {}

\* C27: where start + chunkSize lies before the end of the text and a period
\* or a paragraph break occurs after start up to there, the slice ends just
\* past the later of them; and splitText on the example, with chunkSize 20
\* and overlap 5, returns a list whose first chunk is "Cats are mammals.".
\* A call that returns takes no two slices at the same offset: the loop
\* has no state but the offset, so from a repeated offset it repeats forever.
IsBoundary(i) ==
    \/ i < Len(text) /\ SubSeq(text, i + 1, i + 1) = "."
    \/ i + 1 < Len(text) /\ SubSeq(text, i + 1, i + 2) = "\n\n"

BoundaryStep ==
    SplitLoop =>
        LET end == start + chunkSize
            boundaries == {i \in (start + 1)..end : IsBoundary(i)}
        IN  (end < Len(text) /\ boundaries # {})
                => slices'[Len(slices')] = <<start, SetMax(boundaries) + 1>>

IsExample == text = ExampleText /\ chunkSize = 20 /\ chunkOverlap = 5

ExampleReturns ==
    IsExample =>
        /\ Len(chunks) >= 1 => chunks[1] = "Cats are mammals."
        /\ spc = "done" => Len(splitResult) >= 1 /\ splitResult[1] = chunks[1]
        /\ \A k \in 2..Len(slices) : slices[k][1] # slices[k - 1][1]

C27_SentenceBoundary == []ExampleReturns /\ [][BoundaryStep]_vars

\* C28: when splitText returns, every position of the text lies in one of
\* the slices taken, and a character there that is not white space is in
\* the chunk of that slice, which is among the chunks returned.
InSlice(i, k) ==
    /\ SliceIndex(Len(text), slices[k][1]) <= i
    /\ i < SliceIndex(Len(text), slices[k][2])

C28_NoGaps ==
    spc = "done" =>
        \A i \in 0..(Len(text) - 1) :
            \E k \in 1..Len(slices) :
                /\ InSlice(i, k)
                /\ SubSeq(text, i + 1, i + 1) \notin WhiteSpace =>
                      /\ \E p \in 1..Len(chunks[k]) :
                            SubSeq(chunks[k], p, p) = SubSeq(text, i + 1, i + 1)
                      /\ \E j \in 1..Len(splitResult) : splitResult[j] = chunks[k]

\* splitText returned after slices that overlap, one of them ended at a
\* sentence boundary
C28_Witness ==
    /\ spc = "done"
    /\ chunkOverlap > 0
    /\ Len(slices) >= 2
    /\ \E k \in 1..Len(slices) :
          /\ slices[k][2] < Len(text)
          /\ slices[k][2] # slices[k][1] + chunkSize

\* C29: the output of splitDocuments is grouped by parent document in input
\* order, originalDocIndex is the parent's position, and within a parent
\* chunkIndex counts 0, 1, 2, ... over the chunks in the order splitText
\* produced them.
ChunksOf(d) == SelectSeq(splitResult, LAMBDA c : c.originalDocIndex = d)

C29_OrderAndTags ==
    spc = "done" =>
        /\ \A j \in 1..Len(splitResult) :
              splitResult[j].originalDocIndex \in 0..(Len(splitInput) - 1)
        /\ \A j \in 1..(Len(splitResult) - 1) :
              splitResult[j].originalDocIndex <= splitResult[j + 1].originalDocIndex
        /\ \A d \in 0..(Len(splitInput) - 1) :
              LET produced ==
                      splitText(splitInput[d + 1].content, chunkSize, chunkOverlap).chunks
              IN  /\ Len(ChunksOf(d)) = Len(produced)
                  /\ \A k \in 1..Len(produced) :
                        /\ ChunksOf(d)[k].chunkIndex = k - 1
                        /\ ChunksOf(d)[k].content = produced[k]
                        /\ ChunksOf(d)[k].source = splitInput[d + 1].source

\* Two documents were split, the first into several chunks
C29_Witness ==
    /\ spc = "done"
    /\ Len(splitInput) = 2
    /\ Len(ChunksOf(0)) >= 2
    /\ Len(ChunksOf(1)) >= 1

\* C30: within one generateEmbeddings call at most 5 requests are in flight
\* at any time, a request of a later batch is issued only when every request
\* of the batches before it has succeeded, no batch is issued after a
\* failure, and a call that returns returns one embedding per text, in the
\* order of the texts.
BatchStart(j) == j - (j % batchSize)

Batched ==
    ecall.pc # "idle" =>
        /\ Cardinality(ecall.inflight) <= 5
        /\ \A j \in ecall.issued :
              \A earlier \in 0..(BatchStart(j) - 1) : earlier \in ecall.succeeded
        /\ ecall.pc = "returned" =>
              ecall.embeddings =
                  [k \in 1..Len(ecall.texts) |-> embeddingOf(ecall.texts[k])]

NoBatchAfterFailure ==
    (ecall.pc # "idle" /\ ecall.failed) => ecall'.issued = ecall.issued

C30_Batches == []Batched /\ [][NoBatchAfterFailure]_vars

\* A call over more than one batch returned, its texts not all the same
C30_Witness ==
    /\ ecall.pc = "returned"
    /\ Len(ecall.texts) > 5
    /\ \E k \in 1..Len(ecall.texts) : ecall.texts[k] # ecall.texts[1]

\* C31: whatever addDocuments and clear calls run while a similarity_search
\* awaits, every result it returns carries the content of a chunk with the
\* metadata of that chunk and the similarity of that chunk's embedding, and
\* the results are records of the store as it is when the search returns,
\* each taken at most as often as it is stored.
OfOneChunk(result, query) ==
    \E chunk \in Chunks :
        /\ result.content = chunk.content
        /\ result.metadata = metadataOf(chunk)
        /\ result.similarity =
               cosineSimilarity(embeddingOf(query), embeddingOf(chunk.content))

C31_NoTornRead ==
    AfterSearch =>
        /\ \A i \in 1..Len(ret) :
              /\ OfOneChunk(ret[i], lastCall.query)
              /\ Count(ret, ret[i]) <= Count(StoredAsResults, ret[i])
        /\ Len(ret) = Min(lastCall.k, Len(documents))

\* A search returned records of a store that an addDocuments or a clear
\* changed while the search awaited its embedding, another call being in
\* flight still
C31_Witness ==
    /\ AfterSearch
    /\ lastCall.requested
    /\ lastCall.seen # Len(ids)
    /\ Len(ret) = 2
    /\ ret[1].content # ret[2].content
    /\ \E c \in CallIds : scalls[c].op \in {"addDocuments", "clear"}

\* C32: cosineSimilarity of two vectors of different lengths is 0; a stored
\* record whose embedding has another length than the query's is reported
\* with similarity 0 and distance 1, and the search returns; in every
\* result distance = 1 - similarity.
Mismatched(i) == Len(embeddings[i]) # Len(embeddingOf(lastCall.query))

AsMismatched(i) ==
    [content |-> documents[i], metadata |-> metadatas[i], similarity |-> 0,
     distance |-> Unit]

C32_MismatchIsZero ==
    /\ \A a \in StoredVectors, b \in StoredVectors :
          Len(a) # Len(b) => cosineSimilarity(a, b) = 0
    /\ AfterSearch =>
          /\ \A i \in 1..Len(ret) : ret[i].distance = Unit - ret[i].similarity
          /\ (lastCall.requested /\ lastCall.k >= Len(documents)) =>
                \A i \in 1..Len(documents) :
                    Mismatched(i) =>
                        Count(ret, AsMismatched(i)) >=
                            Cardinality({j \in 1..Len(documents) :
                                /\ Mismatched(j)
                                /\ AsMismatched(j) = AsMismatched(i)})

\* A search returned a record of another dimensionality after one of its own
C32_Witness ==
    /\ AfterSearch
    /\ Len(ret) = 2
    /\ ret[1].similarity > 0
    /\ ret[2].similarity = 0
    /\ ret[2].distance = Unit
    /\ \E i \in 1..Len(documents) : Mismatched(i) /\ AsMismatched(i) = ret[2]

\* C33: getConversationSummary is the empty string exactly when the session
\* is unknown or empty; otherwise it is the heading followed by the last
\* min(5, n) messages in the order they were added, one "role: content" line
\* each, the content cut to its first 100 characters and followed by "..."
\* only when it is longer than that.
SummaryLine(msg) ==
    msg.role \o ": " \o
        (IF Len(msg.content) > 100 THEN SubSeq(msg.content, 1, 100) \o "..."
         ELSE msg.content)

RECURSIVE SummaryLines(_)
SummaryLines(msgs) ==
    IF Len(msgs) = 1 THEN SummaryLine(msgs[1])
    ELSE SummaryLine(msgs[1]) \o "\n" \o SummaryLines(Tail(msgs))

C33_Summary ==
    lastCall.op = "getConversationSummary" =>
        LET msgs == messagesOf(conversations, lastCall.sessionId)
            n == Len(msgs)
            m == Min(5, n)
        IN  /\ ret = "" <=> (lastCall.sessionId \notin DOMAIN conversations \/ n = 0)
            /\ n > 0 =>
                  ret = "Recent conversation context:\n"
                        \o SummaryLines([i \in 1..m |-> msgs[n - m + i]])

\* The summary of a session of more than 5 messages, with a content of 100
\* characters and one of more among the last 5
C33_Witness ==
    /\ lastCall.op = "getConversationSummary"
    /\ lastCall.sessionId \in DOMAIN conversations
    /\ LET msgs == conversations[lastCall.sessionId].messages
       IN  /\ Len(msgs) > 5
           /\ \E i \in (Len(msgs) - 4)..Len(msgs) : Len(msgs[i].content) = 100
           /\ \E i \in (Len(msgs) - 4)..Len(msgs) : Len(msgs[i].content) > 100
           /\ msgs[1].content # msgs[Len(msgs)].content

\* C34: a step of the in-process backend leaves the four arrays as they are,
\* or is the push of one addDocuments call, which keeps the stored records
\* where they are and appends the records of the call in input order, or is
\* a clear, which leaves no record; this under concurrent addDocuments calls.
Records == <<documents, embeddings, metadatas, ids>>

PushOf(c) ==
    /\ scalls[c].op = "addDocuments"
    /\ scalls[c].pc = "embedding"
    /\ scalls'[c].pc = "writing"
    /\ LET docs == scalls[c].docs
           n == Len(docs)
       IN  /\ documents' = documents \o [i \in 1..n |-> docs[i].content]
           /\ embeddings' =
                 embeddings \o [i \in 1..n |-> embeddingOf(docs[i].content)]
           /\ metadatas' = metadatas \o [i \in 1..n |-> metadataOf(docs[i])]
           /\ Len(ids') = Len(ids) + n
           /\ SubSeq(ids', 1, Len(ids)) = ids

ClearOf(c) ==
    /\ scalls'[c].op = "clear"
    /\ scalls[c].op # "clear"
    /\ Records' = <<<<>>, <<>>, <<>>, <<>>>>

AppendOrClear ==
    \/ Records' = Records
    \/ \E c \in CallIds : PushOf(c)
    \/ \E c \in CallIds : ClearOf(c)

C34_AppendOnly == [][AppendOrClear]_vars

\* Two addDocuments calls in flight at once have both pushed their records
C34_Witness ==
    /\ \A c \in CallIds : scalls[c].op = "addDocuments" /\ scalls[c].pc = "writing"
    /\ Len(documents) = 2
    /\ documents[1] # documents[2]

\* C35: in every reachable state of the in-process backend, started from any
\* snapshot, the four arrays have the same length and position i of each
\* belongs to one chunk: the content, its embedding and its metadata.
C35_ParallelArrays ==
    /\ Len(embeddings) = Len(documents)
    /\ Len(metadatas) = Len(documents)
    /\ Len(ids) = Len(documents)
    /\ \A i \in 1..Len(documents) :
          /\ embeddings[i] = embeddingOf(documents[i])
          /\ \E chunk \in Chunks :
                documents[i] = chunk.content /\ metadatas[i] = metadataOf(chunk)

\* C36: under concurrent answerQuestion calls on one session id, every user
\* question in the session is immediately followed by an assistant message,
\* the one stored with it; and the call that returns has put its answer last,
\* its question right before it when the window holds two messages, and has
\* put nothing between the messages that were there.
NextId(id) == CHOOSE n \in 1..(MaxTurnUuid + 1) : ToString(n - 1) = id

QuestionsAnswered ==
    \A id \in DOMAIN conversations :
        LET msgs == conversations[id].messages
        IN  \A i \in 1..Len(msgs) :
                msgs[i].role = "user" =>
                    /\ i < Len(msgs)
                    /\ msgs[i + 1].role = "assistant"
                    /\ msgs[i + 1].id = ToString(NextId(msgs[i].id))

TurnStoredTogether ==
    (/\ lastCall'.op = "answerQuestion"
     /\ lastCall'.outcome = "returned"
     /\ lastCall'.sessionId # NoId)
        => LET msgs == conversations'[lastCall'.sessionId].messages
               n == Len(msgs)
           IN  /\ n >= 1
               /\ msgs[n].role = "assistant"
               /\ msgs[n].content = ret'.answer
               /\ n >= 2 =>
                     /\ msgs[n - 1].role = "user"
                     /\ msgs[n - 1].content = lastCall'.question
               /\ IsSuffix(SubSeq(msgs, 1, n - 2), lastCall'.before)

C36_TurnsNotInterleaved == []QuestionsAnswered /\ [][TurnStoredTogether]_vars

\* A call stored its turn in a session that another call, which began
\* later or ran alongside, had created and written to meanwhile
C36_Witness ==
    /\ lastCall.op = "answerQuestion"
    /\ lastCall.outcome = "returned"
    /\ lastCall.sessionId # NoId
    /\ ~lastCall.existedAtCall
    /\ lastCall.before # <<>>
    /\ LET msgs == conversations[lastCall.sessionId].messages
       IN  /\ Len(msgs) = 3
           /\ msgs[1].content # msgs[3].content
           /\ msgs[2].content # lastCall.before[1].content

\* C37: every slice splitText takes starts at 0 or later and is at most
\* chunkSize long, and no chunk returned is longer than chunkSize.
C37_SliceInWindow ==
    /\ \A k \in 1..Len(slices) :
          /\ 0 <= slices[k][1]
          /\ slices[k][2] - slices[k][1] <= chunkSize
    /\ \A j \in 1..Len(splitResult) : Len(splitResult[j]) <= chunkSize

\* C38: createSession ends with the session under the returned id existing,
\* holding no messages and stamped with the current time, whatever was under
\* that id before.
C38_CreateReplaces ==
    [][lastCall'.op = "createSession" =>
          LET id == ret'
          IN  /\ lastCall'.sessionId # NoId => id = lastCall'.sessionId
              /\ id \in DOMAIN conversations'
              /\ conversations'[id] =
                    [messages |-> <<>>, createdAt |-> now', lastAccessed |-> now']
       ]_vars

\* createSession has just replaced a session that held messages and was
\* created earlier
C38_Witness ==
    /\ lastCall.op = "createSession"
    /\ lastCall.replaced # Null
    /\ lastCall.replaced.messageCount > 0
    /\ lastCall.replaced.createdAt < now
    /\ conversations[ret].messages = <<>>
    /\ conversations[ret].createdAt = now

\* The five operations that take a session id
SessionOps ==
    {"addMessage", "clearConversation", "deleteSession", "createSession", "getContext"}

\* C39: addMessage, clearConversation, deleteSession, createSession and
\* getContext applied to one session id leave every other session as it was:
\* still there, with the same messages, createdAt and lastAccessed.
C39_Isolated ==
    [][lastCall'.op \in SessionOps =>
          LET id == IF lastCall'.op = "createSession" THEN ret'
                    ELSE lastCall'.sessionId
          IN  \A other \in DOMAIN conversations \ {id} :
                 /\ other \in DOMAIN conversations'
                 /\ conversations'[other] = conversations[other]
       ]_vars

\* One of the five operations has just acted on a session while another
\* session held messages from an earlier time
OtherSessionHeld(op) ==
    /\ lastCall.op = op
    /\ \E other \in DOMAIN conversations :
          /\ other # (IF op = "createSession" THEN ret ELSE lastCall.sessionId)
          /\ Len(conversations[other].messages) > 0
          /\ conversations[other].lastAccessed < now

C39_Witness ==
    /\ OtherSessionHeld("deleteSession")
    /\ lastCall.existed

(***************************************************************************)
(* C1: splitText terminates for 0 <= overlap < chunkSize: every iteration  *)
(* of the loop strictly increases the start offset.                        *)
(***************************************************************************)
C1_StartStrictlyIncreases == [][SplitLoop => start' > start]_vars

====
